---- MODULE Spec2Model ----
(***************************************************************************)
(* Device-bound passkey ceremonies of the login page (src/pages/Login.tsx):*)
(* the base64url codec, the device-identifier derivation, and the          *)
(* registerPasskey / loginWithPasskey handlers as interleaved invocations. *)
(*                                                                         *)
(* Text is a sequence of character codes (String.charCodeAt), a binary     *)
(* buffer a sequence of bytes.  A JavaScript object is a record; a         *)
(* property that is undefined is a field that is not in the record's       *)
(* DOMAIN.                                                                 *)
(***************************************************************************)
EXTENDS Integers, Sequences, FiniteSets, TLC

\* ------------------------------------------------------------------ bounds

\* Longest byte buffer / text the codec specification enumerates.
MaxLen == 3

\* Handler invocations started in one behaviour (they may overlap).
MaxInvocations == 2

\* ------------------------------------------------------- character codes

PLUS == 43
MINUS == 45
SLASH == 47
EQUALS == 61
UNDERSCORE == 95
SPACE == 32

\* ------------------------------------------------------------------ codec

\* The standard base64 alphabet used by btoa/atob: index 0..63 -> char code.
B64Char(i) ==
  IF i < 26 THEN 65 + i
  ELSE IF i < 52 THEN 97 + (i - 26)
  ELSE IF i < 62 THEN 48 + (i - 52)
  ELSE IF i = 62 THEN PLUS
  ELSE SLASH

B64Codes == {B64Char(i) : i \in 0..63}

B64Index(c) == CHOOSE i \in 0..63 : B64Char(i) = c

\* btoa: standard base64 of a binary string, '=' padded.
RECURSIVE btoa(_)
btoa(s) ==
  IF Len(s) = 0 THEN << >>
  ELSE IF Len(s) = 1 THEN
    << B64Char(s[1] \div 4), B64Char((s[1] % 4) * 16), EQUALS, EQUALS >>
  ELSE IF Len(s) = 2 THEN
    << B64Char(s[1] \div 4),
       B64Char((s[1] % 4) * 16 + s[2] \div 16),
       B64Char((s[2] % 16) * 4),
       EQUALS >>
  ELSE
    << B64Char(s[1] \div 4),
       B64Char((s[1] % 4) * 16 + s[2] \div 16),
       B64Char((s[2] % 16) * 4 + s[3] \div 64),
       B64Char(s[3] % 64) >>
    \o btoa(SubSeq(s, 4, Len(s)))

\* String.prototype.replace(/c/g, d)
ReplaceAll(t, c, d) == [k \in 1..Len(t) |-> IF t[k] = c THEN d ELSE t[k]]

\* String.prototype.replace(/=+$/g, '')
RECURSIVE StripTrailingEquals(_)
StripTrailingEquals(t) ==
  IF Len(t) > 0 /\ t[Len(t)] = EQUALS
  THEN StripTrailingEquals(SubSeq(t, 1, Len(t) - 1))
  ELSE t

bufToBase64url(buf) ==
  StripTrailingEquals(ReplaceAll(ReplaceAll(btoa(buf), PLUS, MINUS), SLASH, UNDERSCORE))

\* '='.repeat(n)
Repeat(c, n) == [k \in 1..n |-> c]

\* The groups of four sextets of a padding-free base64 text, as bytes; a
\* final group of two or three characters yields one or two bytes and its
\* left-over bits are discarded (forgiving-base64 decode).
RECURSIVE DecodeSextets(_)
DecodeSextets(t) ==
  IF Len(t) < 2 THEN << >>
  ELSE IF Len(t) = 2 THEN
    << B64Index(t[1]) * 4 + B64Index(t[2]) \div 16 >>
  ELSE IF Len(t) = 3 THEN
    << B64Index(t[1]) * 4 + B64Index(t[2]) \div 16,
       (B64Index(t[2]) % 16) * 16 + B64Index(t[3]) \div 4 >>
  ELSE
    << B64Index(t[1]) * 4 + B64Index(t[2]) \div 16,
       (B64Index(t[2]) % 16) * 16 + B64Index(t[3]) \div 4,
       (B64Index(t[3]) % 4) * 64 + B64Index(t[4]) >>
    \o DecodeSextets(SubSeq(t, 5, Len(t)))

\* atob (forgiving-base64 decode): ASCII whitespace is removed; when the
\* length is a multiple of four, one or two trailing '=' are removed; a
\* length of 1 mod 4 or a character outside the alphabet throws
\* InvalidCharacterError.  The result is [ok, bytes].
atob(b64) ==
  LET noWs == SelectSeq(b64, LAMBDA c : c # SPACE)
      n == Len(noWs)
      cut == IF n % 4 = 0 /\ n > 0 /\ noWs[n] = EQUALS
             THEN IF n > 1 /\ noWs[n - 1] = EQUALS THEN 2 ELSE 1
             ELSE 0
      data == SubSeq(noWs, 1, n - cut)
  IN IF Len(data) % 4 = 1 \/ \E k \in 1..Len(data) : data[k] \notin B64Codes
     THEN [ok |-> FALSE, bytes |-> << >>]
     ELSE [ok |-> TRUE, bytes |-> DecodeSextets(data)]

\* A decoder that restores '+' from '-' but leaves '_' in place.
base64urlToBufKeepsUnderscore(b64url) ==
  LET pad == Repeat(EQUALS, (4 - (Len(b64url) % 4)) % 4)
  IN atob(ReplaceAll(b64url \o pad, MINUS, PLUS))

\* base64urlToBuf: [ok |-> TRUE, bytes] or [ok |-> FALSE] when atob throws.
base64urlToBuf(b64url) ==
  LET pad == Repeat(EQUALS, (4 - (Len(b64url) % 4)) % 4)
      b64 == ReplaceAll(ReplaceAll(b64url \o pad, MINUS, PLUS), UNDERSCORE, SLASH)
  IN atob(b64)

\* ------------------------------------------------------------------ state

VARIABLES
  email,           \* the email input's state: useState('')
  loading,         \* useState(false)
  route,           \* the router's location: "/" (Login) or "/dashboard"
  sessionStorage,  \* the session storage: key -> value
  window,          \* what the handlers read of the browser: PublicKeyCredential,
                   \* isSecureContext, location and the device attributes
  inv,             \* the handler invocations, by number
  codec,           \* the codec's input and results (CodecSpec)
  caught,          \* the error in registerPasskey's catch block and the toast
                   \* shown for it (ClassifierSpec)
  device           \* the clock and the calls of generateDeviceId made so far
                   \* (DeviceSpec)

vars == << email, loading, route, sessionStorage, window, inv, codec, caught, device >>

Invocations == 1..MaxInvocations

\* ------------------------------------------------- device identifier

\* String literals of generateDeviceId, as character codes.
StrScreen == << 115, 99, 114, 101, 101, 110, 58 >>                \* "screen:"
StrTz == << 116, 122, 58 >>                                      \* "tz:"
StrLoc == << 108, 111, 99, 58 >>                                 \* "loc:"
StrLang == << 108, 97, 110, 103, 58 >>                           \* "lang:"
StrCpu == << 99, 112, 117, 58 >>                                 \* "cpu:"
StrPlatform == << 112, 108, 97, 116, 102, 111, 114, 109, 58 >>   \* "platform:"
StrTouch == << 116, 111, 117, 99, 104, 58 >>                     \* "touch:"
StrDevice == << 100, 101, 118, 105, 99, 101, 45 >>               \* "device-"
StrUTC == << 85, 84, 67 >>                                       \* "UTC"
StrEn == << 101, 110 >>                                          \* "en"
StrUnknown == << 117, 110, 107, 110, 111, 119, 110 >>            \* "unknown"
StrX == << 120 >>                                                \* "x"
StrBar == << 124 >>                                              \* "|"

\* A text property read without a substitute for an unavailable one.
TextOrNothing(o, f, alt) == IF f \in DOMAIN o THEN o[f] ELSE << >>

\* a || b for a text property f of object o: undefined and '' are falsy.
TextOr(o, f, alt) == IF f \in DOMAIN o /\ Len(o[f]) > 0 THEN o[f] ELSE alt

\* a || b for a numeric property f of object o: undefined and 0 are falsy.
NumOr(o, f, alt) == IF f \in DOMAIN o /\ o[f] # 0 THEN o[f] ELSE alt

\* String(n) / template-literal rendering of a non-negative integer.
RECURSIVE DecimalString(_)
DecimalString(n) ==
  IF n < 10 THEN << 48 + n >>
  ELSE DecimalString(n \div 10) \o << 48 + (n % 10) >>

\* String.prototype.toLowerCase on ASCII text.
toLowerCase(t) == [k \in 1..Len(t) |-> IF t[k] >= 65 /\ t[k] <= 90 THEN t[k] + 32 ELSE t[k]]

\* Array.prototype.join('|')
RECURSIVE Join(_, _)
Join(parts, sep) ==
  IF Len(parts) = 0 THEN << >>
  ELSE IF Len(parts) = 1 THEN parts[1]
  ELSE parts[1] \o sep \o Join(Tail(parts), sep)

\* A screen size taken as it is.
NormalizeScreenExact(v) == v

\* Math.floor(v / 100) * 100 for a non-negative v.
NormalizeScreen(v) == (v \div 100) * 100

\* The '|'-joined component string of an attribute record.
Components(a) ==
  LET timezone == TextOr(a, "timeZone", StrUTC)
      locale == TextOr(a, "locale", TextOr(a, "language", StrEn))
      language == TextOr(a, "language", StrEn)
      platform == TextOr(a, "platform", TextOr(a, "uaPlatform", StrUnknown))
      hardwareConcurrency == DecimalString(NumOr(a, "hardwareConcurrency", 0))
      maxTouchPoints == DecimalString(NumOr(a, "maxTouchPoints", 0))
      screenWidth == NormalizeScreen(NumOr(a, "availWidth", NumOr(a, "width", 0)))
      screenHeight == NormalizeScreen(NumOr(a, "availHeight", NumOr(a, "height", 0)))
      colorDepth == NumOr(a, "colorDepth", 24)
      pixelDepth == NumOr(a, "pixelDepth", NumOr(a, "colorDepth", 24))
  IN Join(<< StrScreen \o DecimalString(screenWidth) \o StrX \o DecimalString(screenHeight)
               \o StrX \o DecimalString(colorDepth) \o StrX \o DecimalString(pixelDepth),
             StrTz \o timezone,
             StrLoc \o locale,
             StrLang \o language,
             StrCpu \o hardwareConcurrency,
             StrPlatform \o toLowerCase(platform),
             StrTouch \o maxTouchPoints >>, StrBar)

\* A signed 32-bit integer is held as its value; sums that leave the 32-bit
\* range are held as a high and a low 16-bit limb (value = hi * 65536 + lo)
\* and brought back by ToInt32.
Limb == 65536

\* ToInt32 of hi * 65536 + lo: the value modulo 2^32, read as signed.
ToInt32(hi, lo) ==
  LET carry == lo \div Limb
      l == lo % Limb
      h == ((hi + carry + 32768) % Limb) - 32768
  IN h * Limb + l

\* hash << 5
ShiftLeft5(h) == ToInt32((h \div Limb) * 32, (h % Limb) * 32)

\* A step that adds the hash to its shift where the code subtracts it.
HashStepAdding(h, char) ==
  LET s == ShiftLeft5(h)
  IN ToInt32((s \div Limb) + (h \div Limb), (s % Limb) + (h % Limb) + char)

\* hash = ((hash << 5) - hash) + char; hash = hash & hash
HashStep(h, char) ==
  LET s == ShiftLeft5(h)
  IN ToInt32((s \div Limb) - (h \div Limb), (s % Limb) - (h % Limb) + char)

\* The hash loop run over the characters of t from the value h.  The loop
\* over t is the loop over its first half followed, from the value reached,
\* by the loop over its second half (this keeps the evaluation shallow);
\* rest[h1] is the second half run from h1.
RECURSIVE HashFrom(_, _)
HashFrom(h, t) ==
  IF Len(t) = 0 THEN h
  ELSE IF Len(t) = 1 THEN HashStep(h, t[1])
  ELSE LET m == Len(t) \div 2
           rest[h1 \in Int] == HashFrom(h1, SubSeq(t, m + 1, Len(t)))
       IN rest[HashFrom(h, SubSeq(t, 1, m))]

\* let hash = 0; for (let i = 0; i < components.length; i++) { ... }
HashOf(t) == HashFrom(0, t)

HexDigit(d) == IF d < 10 THEN 48 + d ELSE 97 + (d - 10)

\* Number.prototype.toString(16) of a non-negative integer below 65536.
RECURSIVE HexString(_)
HexString(n) ==
  IF n < 16 THEN << HexDigit(n) >>
  ELSE HexString(n \div 16) \o << HexDigit(n % 16) >>

\* Math.abs(hash).toString(16): |hash| can be 2^31, so it is rendered from
\* its limbs.
AbsHex(h) ==
  LET hi == IF h >= 0 THEN h \div Limb
            ELSE IF h % Limb = 0 THEN -(h \div Limb)
            ELSE -(h \div Limb) - 1
      lo == IF h >= 0 THEN h % Limb ELSE (Limb - (h % Limb)) % Limb
  IN IF hi = 0 THEN HexString(lo)
     ELSE HexString(hi)
          \o << HexDigit(lo \div 4096), HexDigit((lo \div 256) % 16),
                HexDigit((lo \div 16) % 16), HexDigit(lo % 16) >>

\* An id seeded with the time of the call.
generateDeviceIdTimeSeeded(a) ==
  StrDevice \o AbsHex(HashOf(Components(a) \o StrBar \o DecimalString(device.now)))

generateDeviceId(a) == StrDevice \o AbsHex(HashOf(Components(a)))

\* A fingerprint that tells the browsers of one device apart.
getDeviceFingerprintOfBrowser(a) ==
  generateDeviceId(a) \o (IF "userAgent" \in DOMAIN a /\ a.userAgent = "Firefox" THEN StrX ELSE << >>)

\* getDeviceFingerprint resolves with generateDeviceId().
getDeviceFingerprint(a) == generateDeviceId(a)

\* ------------------------------------------------------- objects, errors

Has(o, f) == f \in DOMAIN o

\* The object o without its property f (the property is undefined).
Without(o, f) == [g \in DOMAIN o \ {f} |-> o[g]]

\* !!o[f] for a text or list property.
Truthy(o, f) == Has(o, f) /\ o[f] # << >>

\* A message is a sequence of fragments; includes(x) is true when x is one.
Includes(err, x) == Has(err, "message") /\ \E k \in 1..Len(err.message) : err.message[k] = x

NameIs(err, x) == Has(err, "name") /\ err.name = x

\* new Error(text)
Error(text) == [name |-> "Error", message |-> << text >>]

\* What the engine throws on a property read of undefined or null.
TypeErrorOf(what) == [name |-> "TypeError", message |-> << what >>]

\* What atob throws.
InvalidCharacterError ==
  [name |-> "InvalidCharacterError",
   message |-> << "The string to be decoded is not correctly encoded." >>]

\* err?.response?.data?.[f], when truthy.
ResponseField(err, f) ==
  IF Has(err, "response") /\ Has(err.response, "data") /\ Truthy(err.response.data, f)
  THEN err.response.data[f]
  ELSE << >>

\* a || b on texts.
Or(a, b) == IF a # << >> THEN a ELSE b

ErrorToast(text) == [level |-> "error", text |-> text]
SuccessToast(text) == [level |-> "success", text |-> text]

MsgEnterEmail == << "Enter email" >>
MsgUnsupported == << "WebAuthn not supported in this browser" >>
MsgHttpsRequired == << "HTTPS required for passkeys. Use localhost or HTTPS." >>
MsgMissingChallenge == "Missing challenge in registration options"
MsgMissingRpId == "Missing rp.id in registration options"
MsgMissingUserId == "Missing user.id in registration options"
MsgNoResponse == "Failed to create credential - no response from authenticator"
MsgCancelled == << "Registration cancelled or not supported. Please try again." >>
MsgAlreadyExists == << "A passkey for this account may already exist on this device." >>
MsgNotSupported == << "WebAuthn not supported. Please use a modern browser." >>
MsgSecurity == << "Security error. Make sure you're using HTTPS or localhost." >>
MsgConfiguration == << "Configuration error: " >>
MsgInvalidOptions == << "Invalid options format" >>
MsgRegistrationFailed == << "Passkey registration failed" >>
MsgRegistered == << "Passkey registered for this device" >>
MsgLoginOk == << "Device login successful" >>
MsgLoginFailed == << "Device login failed" >>

\* A catch block that tests for InvalidStateError before NotAllowedError.
RegisterErrorMessageStateFirst(err) ==
  IF NameIs(err, "InvalidStateError") \/ Includes(err, "InvalidStateError")
  THEN MsgAlreadyExists
  ELSE IF NameIs(err, "NotAllowedError") \/ Includes(err, "NotAllowedError")
  THEN MsgCancelled
  ELSE IF NameIs(err, "NotSupportedError") \/ Includes(err, "NotSupportedError")
  THEN MsgNotSupported
  ELSE IF NameIs(err, "SecurityError") \/ Includes(err, "SecurityError")
  THEN MsgSecurity
  ELSE IF NameIs(err, "TypeError") \/ Includes(err, "TypeError")
  THEN MsgConfiguration \o Or(IF Has(err, "message") THEN err.message ELSE << >>,
                              MsgInvalidOptions)
  ELSE Or(ResponseField(err, "message"),
          Or(ResponseField(err, "detail"),
             Or(IF Has(err, "message") THEN err.message ELSE << >>,
                MsgRegistrationFailed)))

\* A catch block whose last branch prefers the error's own message to the
\* response body's.
RegisterErrorMessageOwnFirst(err) ==
  IF NameIs(err, "NotAllowedError") \/ Includes(err, "NotAllowedError")
  THEN MsgCancelled
  ELSE IF NameIs(err, "InvalidStateError") \/ Includes(err, "InvalidStateError")
  THEN MsgAlreadyExists
  ELSE IF NameIs(err, "NotSupportedError") \/ Includes(err, "NotSupportedError")
  THEN MsgNotSupported
  ELSE IF NameIs(err, "SecurityError") \/ Includes(err, "SecurityError")
  THEN MsgSecurity
  ELSE IF NameIs(err, "TypeError") \/ Includes(err, "TypeError")
  THEN MsgConfiguration \o Or(IF Has(err, "message") THEN err.message ELSE << >>,
                              MsgInvalidOptions)
  ELSE Or(IF Has(err, "message") THEN err.message ELSE << >>,
          Or(ResponseField(err, "message"),
             Or(ResponseField(err, "detail"), MsgRegistrationFailed)))

\* The catch block of registerPasskey: the toast shown for err.
RegisterErrorMessage(err) ==
  IF NameIs(err, "NotAllowedError") \/ Includes(err, "NotAllowedError")
  THEN MsgCancelled
  ELSE IF NameIs(err, "InvalidStateError") \/ Includes(err, "InvalidStateError")
  THEN MsgAlreadyExists
  ELSE IF NameIs(err, "NotSupportedError") \/ Includes(err, "NotSupportedError")
  THEN MsgNotSupported
  ELSE IF NameIs(err, "SecurityError") \/ Includes(err, "SecurityError")
  THEN MsgSecurity
  ELSE IF NameIs(err, "TypeError") \/ Includes(err, "TypeError")
  THEN MsgConfiguration \o Or(IF Has(err, "message") THEN err.message ELSE << >>,
                              MsgInvalidOptions)
  ELSE Or(ResponseField(err, "message"),
          Or(ResponseField(err, "detail"),
             Or(IF Has(err, "message") THEN err.message ELSE << >>,
                MsgRegistrationFailed)))

\* The catch block of loginWithPasskey.
LoginErrorMessage(err) == Or(ResponseField(err, "message"), MsgLoginFailed)

\* ----------------------------------------------------------- environment

\* Two attribute records of navigator / screen / Intl (a desktop display and
\* a phone), as generateDeviceId reads them.
AttrsDesktop ==
  [timeZone |-> << 85, 84, 67 >>, locale |-> << 101, 110 >>, language |-> << 101, 110 >>,
   platform |-> << 87, 105, 110, 51, 50 >>, hardwareConcurrency |-> 8, maxTouchPoints |-> 0,
   availWidth |-> 1920, width |-> 1920, availHeight |-> 1040, height |-> 1080,
   colorDepth |-> 24, pixelDepth |-> 24]

AttrsPhone ==
  [locale |-> << 100, 101 >>, language |-> << 100, 101 >>,
   platform |-> << 105, 80, 104, 111, 110, 101 >>, maxTouchPoints |-> 5,
   width |-> 390, height |-> 844, colorDepth |-> 32]

AttributeRecords == {AttrsDesktop, AttrsPhone}

Loopback == {"localhost", "127.0.0.1", "[::1]"}

\* The pages the handlers can run on.  A browser reports isSecureContext
\* only for https or a loopback host; a browser without the property (or a
\* page framed by an insecure one) reports a falsy value anywhere.
Locations ==
  {[protocol |-> "https:", hostname |-> "example.com"],
   [protocol |-> "http:", hostname |-> "example.com"],
   [protocol |-> "http:", hostname |-> "localhost"],
   [protocol |-> "http:", hostname |-> "127.0.0.1"],
   [protocol |-> "http:", hostname |-> "[::1]"]}

Windows ==
  {w \in [PublicKeyCredential : BOOLEAN, isSecureContext : BOOLEAN,
          location : Locations, attributes : AttributeRecords] :
     w.isSecureContext => (w.location.protocol = "https:" \/ w.location.hostname \in Loopback)}

\* The windows of the ceremony specification: an https page of a browser
\* with the credential API, the same page without the API, and an http page
\* that is no secure context.
CeremonyWindows ==
  {w \in Windows :
     /\ w.attributes = AttrsDesktop
     /\ w.location.hostname = "example.com"
     /\ w.isSecureContext = (w.location.protocol = "https:")
     /\ w.PublicKeyCredential \/ w.isSecureContext}

Emails == {"", "a@example.com"}

\* ------------------------------------------------------- server, platform

Null == [isNull |-> TRUE]
IsNull(v) == Has(v, "isNull")

Resolved(v) == [ok |-> TRUE, value |-> v]
Rejected(e) == [ok |-> FALSE, error |-> e]

\* axios rejects a non-2xx response with an AxiosError carrying the response.
AxiosError(status, data) ==
  [name |-> "AxiosError", message |-> << "Request failed with status code" >>,
   response |-> [status |-> status, data |-> data]]

\* A non-2xx response whose body carries a message, and one whose body
\* carries none.
HttpFailures ==
  {AxiosError(400, [message |-> << "server message" >>]),
   AxiosError(500, [error |-> "Internal Server Error"])}

TextAAA == << 65, 65, 65 >>        \* "AAA"
TextQQ == << 81, 81 >>             \* "QQ"
TextUrlSafe == << 45, 95, 56 >>    \* "-_8"
TextMalformed == << 33, 33 >>      \* "!!"

ValidRegistrationOptions ==
  [challenge |-> TextAAA,
   rp |-> [id |-> "example.com", name |-> "Demo"],
   user |-> [id |-> TextQQ, name |-> "a@example.com"]]

\* The bodies of a 2xx register/start response: the valid options, the
\* options with an exclusion list, and the options with one or two of the
\* required fields missing, empty or malformed.
RegistrationOptions ==
  {ValidRegistrationOptions,
   [challenge |-> TextUrlSafe,
    rp |-> [id |-> "example.com", name |-> "Demo"],
    user |-> [id |-> TextQQ, name |-> "a@example.com"],
    excludeCredentials |-> << [id |-> TextUrlSafe, type |-> "public-key"] >>],
   Without(ValidRegistrationOptions, "challenge"),
   [ValidRegistrationOptions EXCEPT !.challenge = << >>],
   [ValidRegistrationOptions EXCEPT !.challenge = TextMalformed],
   Without(ValidRegistrationOptions, "rp"),
   [ValidRegistrationOptions EXCEPT !.rp = [name |-> "Demo"]],
   Without(ValidRegistrationOptions, "user"),
   [ValidRegistrationOptions EXCEPT !.user = [name |-> "a@example.com"]],
   [ValidRegistrationOptions EXCEPT !.user = [id |-> TextMalformed, name |-> "a@example.com"]],
   Without(Without(ValidRegistrationOptions, "challenge"), "rp")}

RegisterStartResults ==
  {Resolved(o) : o \in RegistrationOptions} \cup {Rejected(e) : e \in HttpFailures}

DOMException(name) == [name |-> name, message |-> << "The operation failed." >>]

CredentialOne ==
  [id |-> "cred1", rawId |-> << 1 >>, type |-> "public-key",
   response |-> [attestationObject |-> << 1, 2 >>, clientDataJSON |-> << 3 >>]]

CredentialTwo ==
  [id |-> "cred2", rawId |-> << 251, 255 >>, type |-> "public-key",
   response |-> [attestationObject |-> << 251, 255, 254 >>, clientDataJSON |-> << 62, 63, 0, 7 >>,
                 transports |-> << "internal" >>]]

\* What navigator.credentials.create settles with: a rejection, null, a
\* credential without response, a complete credential (with or without
\* getTransports), or one with a binary field missing.
CreateResults ==
  {Rejected(DOMException("NotAllowedError")),
   Resolved(Null),
   Resolved(Without(CredentialOne, "response")),
   Resolved(CredentialOne),
   Resolved(CredentialTwo),
   Resolved(Without(CredentialOne, "rawId")),
   Resolved([CredentialOne EXCEPT !.response = Without(@, "attestationObject")]),
   Resolved([CredentialTwo EXCEPT !.response = Without(@, "clientDataJSON")])}

RegisterFinishResults ==
  {Resolved([ok |-> TRUE])} \cup {Rejected(e) : e \in HttpFailures}

\* ------------------------------------------------------------ invocations

RegisterStart == "POST /webauthn/register/start"
RegisterFinish == "POST /webauthn/register/finish"
LoginStart == "POST /webauthn/login/start"
LoginFinish == "POST /webauthn/login/finish"
CredentialsCreate == "navigator.credentials.create"
CredentialsGet == "navigator.credentials.get"

\* An invocation that has not started.  calls are the network and platform
\* calls it has issued, in order; awaiting the calls not yet settled;
\* settled what the settled calls returned, in order.
Idle ==
  [kind |-> "none", pc |-> "idle", email |-> "", visitorId |-> << >>,
   calls |-> << >>, awaiting |-> {}, settled |-> << >>,
   toasts |-> << >>, navigated |-> FALSE]

\* axios.post(url, body, {withCredentials: true, headers})
Post(url, body, visitorId) ==
  [op |-> url, body |-> body, headers |-> [h \in {"x-fp-visitor-id"} |-> visitorId]]

\* The invocation issues a call and suspends on it.
Await(r, pc, call) ==
  [r EXCEPT !.pc = pc, !.calls = Append(@, call), !.awaiting = @ \cup {call.op}]

\* The awaited call op settles with res; the invocation resumes.
Resume(r, op, res) ==
  [r EXCEPT !.awaiting = @ \ {op}, !.settled = Append(@, res)]

\* toast.error(text), the handler returns.
Fail(r, text) ==
  [r EXCEPT !.pc = "rejected", !.toasts = Append(@, ErrorToast(text))]

\* A test that takes every loopback host name for secure.
IsSecureContextAnyLoopback(w) ==
  \/ w.isSecureContext
  \/ w.location.protocol = "https:"
  \/ w.location.hostname \in Loopback

\* location.protocol / hostname test of registerPasskey.
IsSecureContext(w) ==
  \/ w.isSecureContext
  \/ w.location.protocol = "https:"
  \/ w.location.hostname = "localhost"
  \/ w.location.hostname = "127.0.0.1"

\* visitorId || generateDeviceId()
FinalVisitorId(w) == Or(getDeviceFingerprint(w.attributes), generateDeviceId(w.attributes))

\* registerPasskey without the test of window.PublicKeyCredential.
RegisterBeginNoApiCheck(e, w) ==
  LET r == [Idle EXCEPT !.kind = "register", !.email = e]
  IN IF e = "" THEN Fail(r, MsgEnterEmail)
     ELSE IF ~IsSecureContext(w) THEN Fail(r, MsgHttpsRequired)
     ELSE LET regFinalVisitorId == FinalVisitorId(w)
          IN Await([r EXCEPT !.visitorId = regFinalVisitorId], "awaiting-options",
                   Post(RegisterStart, [email |-> e], regFinalVisitorId))

\* registerPasskey from the click to its first suspension.
RegisterBegin(e, w) ==
  LET r == [Idle EXCEPT !.kind = "register", !.email = e]
  IN IF e = "" THEN Fail(r, MsgEnterEmail)
     ELSE IF ~w.PublicKeyCredential THEN Fail(r, MsgUnsupported)
     ELSE IF ~IsSecureContext(w) THEN Fail(r, MsgHttpsRequired)
     ELSE LET regFinalVisitorId == FinalVisitorId(w)
          IN Await([r EXCEPT !.visitorId = regFinalVisitorId], "awaiting-options",
                   Post(RegisterStart, [email |-> e], regFinalVisitorId))

\* The exclusion / allow list with every id decoded: [ok, list].
DecodeCredentialList(list) ==
  LET d == [k \in 1..Len(list) |-> base64urlToBuf(list[k].id)]
  IN [ok |-> \A k \in 1..Len(list) : d[k].ok,
      list |-> [k \in 1..Len(list) |-> [list[k] EXCEPT !.id = d[k].bytes]]]

\* The conversion of challenge, user.id and excludeCredentials to buffers:
\* [ok |-> TRUE, options] or [ok |-> FALSE] when base64urlToBuf throws.
DecodeRegistrationOptions(o) ==
  LET c == base64urlToBuf(o.challenge)
      u == base64urlToBuf(o.user.id)
      x == IF Has(o, "excludeCredentials")
           THEN DecodeCredentialList(o.excludeCredentials)
           ELSE [ok |-> TRUE, list |-> << >>]
      base == [o EXCEPT !.challenge = c.bytes, !.user = [@ EXCEPT !.id = u.bytes]]
  IN IF ~(c.ok /\ u.ok /\ x.ok) THEN [ok |-> FALSE]
     ELSE [ok |-> TRUE,
           options |-> IF Has(o, "excludeCredentials")
                       THEN [base EXCEPT !.excludeCredentials = x.list]
                       ELSE base]

\* The check of the required fields with the rp check left out.
ValidateWithoutRp(options) ==
  IF ~Truthy(options, "challenge") THEN Error(MsgMissingChallenge)
  ELSE IF ~Has(options, "user") \/ ~Truthy(options.user, "id")
  THEN Error(MsgMissingUserId)
  ELSE Null

\* The check of the required fields: the error thrown, or Null.
ValidateRegistrationOptions(options) ==
  IF ~Truthy(options, "challenge") THEN Error(MsgMissingChallenge)
  ELSE IF ~Has(options, "rp") \/ ~Has(options.rp, "id") \/ options.rp.id = ""
  THEN Error(MsgMissingRpId)
  ELSE IF ~Has(options, "user") \/ ~Truthy(options.user, "id")
  THEN Error(MsgMissingUserId)
  ELSE Null

\* registerPasskey resumed with the settled register/start request.
RegisterOnOptions(r, res) ==
  IF ~res.ok THEN Fail(r, RegisterErrorMessage(res.error))
  ELSE LET options == res.value
           invalid == ValidateRegistrationOptions(options)
       IN IF ~IsNull(invalid) THEN Fail(r, RegisterErrorMessage(invalid))
          ELSE LET d == DecodeRegistrationOptions(options)
               IN IF ~d.ok THEN Fail(r, RegisterErrorMessage(InvalidCharacterError))
                  ELSE Await(r, "awaiting-platform-ceremony",
                             [op |-> CredentialsCreate, publicKey |-> d.options])

\* bufToBase64url(o[f]); new Uint8Array(undefined) is the empty array.
EncodeField(o, f) == bufToBase64url(IF Has(o, f) THEN o[f] ELSE << >>)

\* An attestationResponse with the two response buffers exchanged.
AttestationResponseSwapped(cred) ==
  [id |-> cred.id,
   rawId |-> EncodeField(cred, "rawId"),
   type |-> cred.type,
   response |->
     [attestationObject |-> EncodeField(cred.response, "clientDataJSON"),
      clientDataJSON |-> EncodeField(cred.response, "attestationObject"),
      transports |-> IF Has(cred.response, "transports")
                     THEN cred.response.transports ELSE << >>]]

\* The attestationResponse object built from the credential.
AttestationResponse(cred) ==
  [id |-> cred.id,
   rawId |-> EncodeField(cred, "rawId"),
   type |-> cred.type,
   response |->
     [attestationObject |-> EncodeField(cred.response, "attestationObject"),
      clientDataJSON |-> EncodeField(cred.response, "clientDataJSON"),
      transports |-> IF Has(cred.response, "transports")
                     THEN cred.response.transports ELSE << >>]]

\* A body whose fingerprint is derived anew when the request is built.
RegisterFinishBodyRederived(r, cred) ==
  [email |-> r.email, attestationResponse |-> AttestationResponse(cred),
   fpVisitorId |-> FinalVisitorId(window)]

\* The body of the register/finish request.
RegisterFinishBody(r, cred) ==
  [email |-> r.email, attestationResponse |-> AttestationResponse(cred),
   fpVisitorId |-> r.visitorId]

\* registerPasskey that sends the finish request although the platform
\* ceremony was rejected.
RegisterOnCredentialUnchecked(r, res) ==
  IF ~res.ok
  THEN Await(r, "awaiting-finish",
             Post(RegisterFinish, [email |-> r.email, fpVisitorId |-> r.visitorId], r.visitorId))
  ELSE LET cred == res.value
       IN IF IsNull(cred) \/ ~Has(cred, "response")
          THEN Fail(r, RegisterErrorMessage(Error(MsgNoResponse)))
          ELSE Await(r, "awaiting-finish",
                     Post(RegisterFinish, RegisterFinishBody(r, cred), r.visitorId))

\* registerPasskey resumed with the settled navigator.credentials.create.
RegisterOnCredential(r, res) ==
  IF ~res.ok THEN Fail(r, RegisterErrorMessage(res.error))
  ELSE LET cred == res.value
       IN IF IsNull(cred) \/ ~Has(cred, "response")
          THEN Fail(r, RegisterErrorMessage(Error(MsgNoResponse)))
          ELSE Await(r, "awaiting-finish",
                     Post(RegisterFinish, RegisterFinishBody(r, cred), r.visitorId))

\* registerPasskey that sends the finish request again when it failed.
RegisterOnFinishRetrying(r, res) ==
  IF ~res.ok /\ Len(r.calls) = 3 THEN Await(r, "awaiting-finish", r.calls[3])
  ELSE IF ~res.ok THEN Fail(r, RegisterErrorMessage(res.error))
  ELSE [r EXCEPT !.pc = "succeeded", !.toasts = Append(@, SuccessToast(MsgRegistered))]

\* registerPasskey resumed with the settled register/finish request.
RegisterOnFinish(r, res) ==
  IF ~res.ok THEN Fail(r, RegisterErrorMessage(res.error))
  ELSE [r EXCEPT !.pc = "succeeded", !.toasts = Append(@, SuccessToast(MsgRegistered))]

\* ------------------------------------------------------- loginWithPasskey

ValidLoginOptions == [challenge |-> TextAAA, rpId |-> "example.com"]

\* The bodies of a 2xx login/start response.
LoginOptions ==
  {ValidLoginOptions,
   [challenge |-> TextUrlSafe, rpId |-> "example.com",
    allowCredentials |-> << [id |-> TextQQ, type |-> "public-key"] >>],
   Without(ValidLoginOptions, "challenge"),
   [ValidLoginOptions EXCEPT !.challenge = TextMalformed],
   [challenge |-> TextAAA, rpId |-> "example.com",
    allowCredentials |-> << [id |-> TextMalformed, type |-> "public-key"] >>]}

LoginStartResults ==
  {Resolved(o) : o \in LoginOptions} \cup {Rejected(e) : e \in HttpFailures}

AssertionOne ==
  [id |-> "cred1", rawId |-> << 1 >>, type |-> "public-key",
   response |-> [authenticatorData |-> << 9, 8 >>, clientDataJSON |-> << 3 >>,
                 signature |-> << 251, 255 >>, userHandle |-> << 65 >>]]

AssertionTwo ==
  [id |-> "cred2", rawId |-> << 251, 255 >>, type |-> "public-key",
   response |-> [authenticatorData |-> << 0 >>, clientDataJSON |-> << 62, 63, 0, 7 >>,
                 signature |-> << 7, 7, 7 >>]]

\* What navigator.credentials.get settles with.
GetResults ==
  {Rejected(DOMException("NotAllowedError")),
   Resolved(Null),
   Resolved(Without(AssertionOne, "response")),
   Resolved(AssertionOne),
   Resolved(AssertionTwo),
   Resolved(Without(AssertionOne, "rawId")),
   Resolved([AssertionOne EXCEPT !.response = Without(@, "authenticatorData")]),
   Resolved([AssertionTwo EXCEPT !.response = Without(@, "clientDataJSON")]),
   Resolved([AssertionTwo EXCEPT !.response = Without(@, "signature")])}

LoginFinishResults ==
  {Resolved([verified |-> TRUE]), Resolved([verified |-> FALSE]),
   Resolved([error |-> "no verdict"]),
   Rejected(AxiosError(400, [message |-> << "server message" >>]))}

\* loginWithPasskey from the click to its first suspension.
LoginBegin(e, w) ==
  LET r == [Idle EXCEPT !.kind = "login", !.email = e]
  IN IF e = "" THEN Fail(r, MsgEnterEmail)
     ELSE LET loginFinalVisitorId == FinalVisitorId(w)
          IN Await([r EXCEPT !.visitorId = loginFinalVisitorId], "awaiting-options",
                   Post(LoginStart, [email |-> e], loginFinalVisitorId))

\* A conversion that takes a missing challenge for an empty one.
DecodeLoginOptionsMissingAsEmpty(o) ==
  LET c == IF Has(o, "challenge") THEN base64urlToBuf(o.challenge)
           ELSE [ok |-> TRUE, bytes |-> << >>]
      a == IF Has(o, "allowCredentials")
           THEN DecodeCredentialList(o.allowCredentials)
           ELSE [ok |-> TRUE, list |-> << >>]
  IN IF ~(c.ok /\ a.ok) THEN [ok |-> FALSE]
     ELSE [ok |-> TRUE,
           options |-> [f \in DOMAIN o \cup {"challenge"} |->
                          IF f = "challenge" THEN c.bytes
                          ELSE IF f = "allowCredentials" THEN a.list
                          ELSE o[f]]]

\* The conversion of challenge and allowCredentials to buffers: [ok |-> TRUE,
\* options] or [ok |-> FALSE] when it throws (b64url.length of an undefined
\* challenge is a TypeError, a malformed text an InvalidCharacterError).
DecodeLoginOptions(o) ==
  LET c == IF Has(o, "challenge") THEN base64urlToBuf(o.challenge) ELSE [ok |-> FALSE]
      a == IF Has(o, "allowCredentials")
           THEN DecodeCredentialList(o.allowCredentials)
           ELSE [ok |-> TRUE, list |-> << >>]
      base == [o EXCEPT !.challenge = c.bytes]
  IN IF ~(c.ok /\ a.ok) THEN [ok |-> FALSE]
     ELSE [ok |-> TRUE,
           options |-> IF Has(o, "allowCredentials")
                       THEN [base EXCEPT !.allowCredentials = a.list]
                       ELSE base]

\* The error the conversion throws for options o.
DecodeLoginError(o) ==
  IF Has(o, "challenge") THEN InvalidCharacterError
  ELSE TypeErrorOf("Cannot read properties of undefined (reading 'length')")

\* loginWithPasskey resumed with the settled login/start request.
LoginOnOptions(r, res) ==
  IF ~res.ok THEN Fail(r, LoginErrorMessage(res.error))
  ELSE LET d == DecodeLoginOptions(res.value)
       IN IF ~d.ok THEN Fail(r, LoginErrorMessage(DecodeLoginError(res.value)))
          ELSE Await(r, "awaiting-platform-ceremony",
                     [op |-> CredentialsGet, publicKey |-> d.options])

\* userHandle: authResp.userHandle ? bufToBase64url(authResp.userHandle) : null
UserHandle(authResp) ==
  IF Has(authResp, "userHandle") THEN [text |-> bufToBase64url(authResp.userHandle)] ELSE Null

\* The assertionResponse object built from the assertion.
AssertionResponse(assertion) ==
  LET authResp == assertion.response
  IN [id |-> assertion.id,
      type |-> assertion.type,
      rawId |-> EncodeField(assertion, "rawId"),
      response |->
        [authenticatorData |-> EncodeField(authResp, "authenticatorData"),
         clientDataJSON |-> EncodeField(authResp, "clientDataJSON"),
         signature |-> EncodeField(authResp, "signature"),
         userHandle |-> UserHandle(authResp)]]

\* A finish body that reads the email input as it is when the body is built.
LoginFinishBodyCurrentEmail(r, assertion) ==
  [email |-> email, assertionResponse |-> AssertionResponse(assertion),
   fpVisitorId |-> r.visitorId]

\* The body of the login/finish request.
LoginFinishBody(r, assertion) ==
  [email |-> r.email, assertionResponse |-> AssertionResponse(assertion),
   fpVisitorId |-> r.visitorId]

\* loginWithPasskey resumed with the settled navigator.credentials.get.
LoginOnAssertion(r, res) ==
  IF ~res.ok THEN Fail(r, LoginErrorMessage(res.error))
  ELSE LET assertion == res.value
       IN IF IsNull(assertion)
          THEN Fail(r, LoginErrorMessage(
                         TypeErrorOf("Cannot read properties of null (reading 'response')")))
          ELSE IF ~Has(assertion, "response")
          THEN Fail(r, LoginErrorMessage(
                         TypeErrorOf("Cannot read properties of undefined (reading 'authenticatorData')")))
          ELSE Await(r, "awaiting-finish",
                     Post(LoginFinish, LoginFinishBody(r, assertion), r.visitorId))

\* A response that carries a verified flag, whatever its value.
VerifiedPresent(data) == Has(data, "verified")

\* data?.verified
Verified(data) == Has(data, "verified") /\ data.verified

\* loginWithPasskey resumed with the settled login/finish request.
LoginOnFinish(r, res) ==
  IF ~res.ok THEN Fail(r, LoginErrorMessage(res.error))
  ELSE IF Verified(res.value)
  THEN [r EXCEPT !.pc = "succeeded", !.toasts = Append(@, SuccessToast(MsgLoginOk)),
                 !.navigated = TRUE]
  ELSE Fail(r, MsgLoginFailed)

\* ---------------------------------------------------------------- actions

\* ---------------------------------------------------------------- onSubmit

FingerprintGet == "FingerprintJS.get"
AuthLogin == "POST /auth/login"

MsgLoggedIn == << "Logged in" >>
MsgSubmitFailed == << "Login failed" >>

StrUndefined == << 117, 110, 100, 101, 102, 105, 110, 101, 100 >>    \* "undefined"

\* What the password input holds when the form is submitted (the input is
\* required, so it is not empty).
Passwords == {"secret"}

\* What await fpPromise, await fp.get() settles with: FingerprintJS' result
\* for this browser, or the failure of FingerprintJS to load.
FingerprintResults ==
  {Resolved([visitorId |-> << 102, 112, 45, 99, 104, 114, 111, 109, 101 >>]),
   Rejected(Error("Failed to load FingerprintJS"))}

\* What POST /auth/login settles with: a 2xx response with the device id
\* hash, one without it, or a non-2xx response.
AuthLoginResults ==
  {Resolved([deviceIdHash |-> << 57, 102, 50, 99 >>]),
   Resolved([ok |-> TRUE])}
  \cup {Rejected(e) : e \in HttpFailures}

\* The catch block of onSubmit.
SubmitErrorMessage(err) == Or(ResponseField(err, "message"), MsgSubmitFailed)

\* onSubmit from the submission of the form to its first suspension.
SubmitBegin(e, pw) ==
  Await([kind |-> "password", pc |-> "idle", email |-> e, password |-> pw,
         visitorId |-> << >>, calls |-> << >>, awaiting |-> {}, settled |-> << >>,
         toasts |-> << >>, navigated |-> FALSE],
        "awaiting-fingerprint", [op |-> FingerprintGet])

\* onSubmit resumed with FingerprintJS' result.
SubmitOnFingerprint(r, res) ==
  IF ~res.ok THEN Fail(r, SubmitErrorMessage(res.error))
  ELSE LET visitorId == res.value.visitorId
       IN Await([r EXCEPT !.visitorId = visitorId], "awaiting-login",
                Post(AuthLogin, [email |-> r.email, password |-> r.password], visitorId))

\* onSubmit resumed with the settled /auth/login request.
SubmitOnLogin(r, res) ==
  IF ~res.ok THEN Fail(r, SubmitErrorMessage(res.error))
  ELSE [r EXCEPT !.pc = "succeeded", !.toasts = Append(@, SuccessToast(MsgLoggedIn)),
                 !.navigated = TRUE]

\* sessionStorage.setItem(key, o[f]): a value that is undefined is stored
\* as the text "undefined".
SetItem(storage, key, o, f) ==
  [g \in DOMAIN storage \cup {key} |->
     IF g = key THEN (IF Has(o, f) THEN o[f] ELSE StrUndefined) ELSE storage[g]]

Terminal(r) == r.pc \in {"succeeded", "rejected"}

\* Invocations are numbered in the order they start.
NextToStart(i) == inv[i].pc = "idle" /\ \A j \in 1..(i - 1) : inv[j].pc # "idle"

\* Buttons that stay enabled while loading.
ButtonsEnabledWhileLoading == route = "/"

\* The buttons are rendered on "/" and disabled while loading.
ButtonsEnabled == route = "/" /\ ~loading

CaughtOff == [phase |-> "off", err |-> [name |-> "none"], toast |-> ErrorToast(<< >>)]

DeviceOff == [now |-> 0, calls |-> << >>]

CodecOff == [phase |-> "off", buf |-> << >>, text |-> << >>, out |-> [ok |-> TRUE, bytes |-> << >>]]

Init ==
  /\ email = ""
  /\ loading = FALSE
  /\ route = "/"
  /\ sessionStorage = [k \in {} |-> << >>]
  /\ window \in CeremonyWindows
  /\ inv = [i \in Invocations |-> Idle]
  /\ codec = CodecOff
  /\ caught = CaughtOff
  /\ device = DeviceOff

\* onChange of the email input: setEmail(e.target.value)
SetEmail(e) ==
  /\ route = "/"
  /\ e # email
  /\ email' = e
  /\ UNCHANGED << loading, route, sessionStorage, window, inv, codec, caught, device >>

\* The device's attributes change (the window moves to another display, the
\* time zone is changed) while the page is open.
AttributesChange(a) ==
  /\ a # window.attributes
  /\ window' = [window EXCEPT !.attributes = a]
  /\ UNCHANGED << email, loading, route, sessionStorage, inv, codec, caught, device >>

\* Click on "Register device (passkey)".
RegisterClick(i) ==
  /\ ButtonsEnabled
  /\ NextToStart(i)
  /\ inv' = [inv EXCEPT ![i] = RegisterBegin(email, window)]
  /\ UNCHANGED << email, loading, route, sessionStorage, window, codec, caught, device >>

\* A step of registerPasskey: the call op it awaits in state pc settles and
\* the handler runs on to its next suspension or its end, reaching r.
RegisterResume(i, pc, op, r) ==
  /\ inv[i].kind = "register"
  /\ inv[i].pc = pc
  /\ op \in inv[i].awaiting
  /\ inv' = [inv EXCEPT ![i] = r]
  /\ UNCHANGED << email, loading, route, sessionStorage, window, codec, caught, device >>

RegisterStartSettles(i) ==
  \E res \in RegisterStartResults :
    RegisterResume(i, "awaiting-options", RegisterStart,
                   RegisterOnOptions(Resume(inv[i], RegisterStart, res), res))

CreateSettles(i) ==
  \E res \in CreateResults :
    RegisterResume(i, "awaiting-platform-ceremony", CredentialsCreate,
                   RegisterOnCredential(Resume(inv[i], CredentialsCreate, res), res))

RegisterFinishSettles(i) ==
  \E res \in RegisterFinishResults :
    RegisterResume(i, "awaiting-finish", RegisterFinish,
                   RegisterOnFinish(Resume(inv[i], RegisterFinish, res), res))

\* A loginWithPasskey without its finally block.
LoginEffectsWithoutFinally(i, r) ==
  /\ inv' = [inv EXCEPT ![i] = r]
  /\ loading' = loading
  /\ route' = IF r.navigated THEN "/dashboard" ELSE route
  /\ UNCHANGED << email, sessionStorage, window, codec, caught, device >>

\* The effects of loginWithPasskey reaching r: navigate('/dashboard') when it
\* verified, and setLoading(false) in the finally block when it ended.
LoginEffects(i, r) ==
  /\ inv' = [inv EXCEPT ![i] = r]
  /\ loading' = IF Terminal(r) THEN FALSE ELSE loading
  /\ route' = IF r.navigated THEN "/dashboard" ELSE route
  /\ UNCHANGED << email, sessionStorage, window, codec, caught, device >>

\* Click on "Login with device (passkey)": setLoading(true), then the
\* handler up to its first suspension.
LoginClick(i) ==
  /\ ButtonsEnabled
  /\ NextToStart(i)
  /\ LET r == LoginBegin(email, window)
     IN /\ inv' = [inv EXCEPT ![i] = r]
        /\ loading' = ~Terminal(r)
  /\ UNCHANGED << email, route, sessionStorage, window, codec, caught, device >>

LoginResume(i, pc, op, r) ==
  /\ inv[i].kind = "login"
  /\ inv[i].pc = pc
  /\ op \in inv[i].awaiting
  /\ LoginEffects(i, r)

LoginStartSettles(i) ==
  \E res \in LoginStartResults :
    LoginResume(i, "awaiting-options", LoginStart,
                LoginOnOptions(Resume(inv[i], LoginStart, res), res))

GetSettles(i) ==
  \E res \in GetResults :
    LoginResume(i, "awaiting-platform-ceremony", CredentialsGet,
                LoginOnAssertion(Resume(inv[i], CredentialsGet, res), res))

LoginFinishSettles(i) ==
  \E res \in LoginFinishResults :
    LoginResume(i, "awaiting-finish", LoginFinish,
                LoginOnFinish(Resume(inv[i], LoginFinish, res), res))

\* A handler that stores the fingerprint it sent instead of the hash the
\* server returned.
SubmitStoragePersistingVisitorId(storage, r, res) ==
  IF r.pc = "succeeded"
  THEN [g \in DOMAIN storage \cup {"deviceIdHash"} |->
          IF g = "deviceIdHash" THEN r.visitorId ELSE storage[g]]
  ELSE storage

\* Session storage after the step of onSubmit that resumed with res and
\* ran on to r: setItem is reached only past the awaited /auth/login.
SubmitStorage(storage, r, res) ==
  IF r.pc = "succeeded"
  THEN SetItem(storage, "deviceIdHash", res.value, "deviceIdHash")
  ELSE storage

\* The form is submitted (the Login button, or Enter in an input): the
\* browser lets it through when the required inputs are filled and the
\* submit button is enabled; setLoading(true), then the handler up to its
\* first suspension.
SubmitClick(i) ==
  /\ ButtonsEnabled
  /\ NextToStart(i)
  /\ email # ""
  /\ \E pw \in Passwords : inv' = [inv EXCEPT ![i] = SubmitBegin(email, pw)]
  /\ loading' = TRUE
  /\ UNCHANGED << email, route, sessionStorage, window, codec, caught, device >>

\* A step of onSubmit: the call op it awaits in state pc settles with res
\* and the handler runs on to r, its next suspension or its end; on
\* success it stores the device id hash and navigates; the finally block
\* runs setLoading(false) when it ends.
SubmitResume(i, pc, op, res, r) ==
  /\ inv[i].kind = "password"
  /\ inv[i].pc = pc
  /\ op \in inv[i].awaiting
  /\ inv' = [inv EXCEPT ![i] = r]
  /\ loading' = IF Terminal(r) THEN FALSE ELSE loading
  /\ sessionStorage' = SubmitStorage(sessionStorage, r, res)
  /\ route' = IF r.navigated THEN "/dashboard" ELSE route
  /\ UNCHANGED << email, window, codec, caught, device >>

FingerprintSettles(i) ==
  \E res \in FingerprintResults :
    SubmitResume(i, "awaiting-fingerprint", FingerprintGet, res,
                 SubmitOnFingerprint(Resume(inv[i], FingerprintGet, res), res))

AuthLoginSettles(i) ==
  \E res \in AuthLoginResults :
    SubmitResume(i, "awaiting-login", AuthLogin, res,
                 SubmitOnLogin(Resume(inv[i], AuthLogin, res), res))

Next ==
  \/ \E e \in Emails : SetEmail(e)
  \/ \E a \in AttributeRecords : AttributesChange(a)
  \/ \E i \in Invocations : RegisterClick(i)
  \/ \E i \in Invocations : RegisterStartSettles(i)
  \/ \E i \in Invocations : CreateSettles(i)
  \/ \E i \in Invocations : RegisterFinishSettles(i)
  \/ \E i \in Invocations : LoginClick(i)
  \/ \E i \in Invocations : LoginStartSettles(i)
  \/ \E i \in Invocations : GetSettles(i)
  \/ \E i \in Invocations : LoginFinishSettles(i)
  \/ \E i \in Invocations : SubmitClick(i)
  \/ \E i \in Invocations : FingerprintSettles(i)
  \/ \E i \in Invocations : AuthLoginSettles(i)

Spec == Init /\ [][Next]_vars

\* Every awaited call of loginWithPasskey and onSubmit settles: the network
\* answers or fails, the platform ceremony resolves or rejects.
CallsSettle ==
  \A i \in Invocations :
    /\ WF_vars(LoginStartSettles(i))
    /\ WF_vars(GetSettles(i))
    /\ WF_vars(LoginFinishSettles(i))
    /\ WF_vars(FingerprintSettles(i))
    /\ WF_vars(AuthLoginSettles(i))

\* The handlers' steps on a device whose attributes stay as they are.
LiveNext ==
  \/ \E e \in Emails : SetEmail(e)
  \/ \E i \in Invocations : RegisterClick(i)
  \/ \E i \in Invocations : RegisterStartSettles(i)
  \/ \E i \in Invocations : CreateSettles(i)
  \/ \E i \in Invocations : RegisterFinishSettles(i)
  \/ \E i \in Invocations : LoginClick(i)
  \/ \E i \in Invocations : LoginStartSettles(i)
  \/ \E i \in Invocations : GetSettles(i)
  \/ \E i \in Invocations : LoginFinishSettles(i)
  \/ \E i \in Invocations : SubmitClick(i)
  \/ \E i \in Invocations : FingerprintSettles(i)
  \/ \E i \in Invocations : AuthLoginSettles(i)

LiveSpec == Init /\ [][LiveNext]_vars /\ CallsSettle

\* ------------------------------------------------------ codec, on its own

\* The byte values the codec specification draws buffers from: they cover
\* the sextets 62 and 63 ('+' and '/', '-' and '_' once URL-safe).
Bytes == {0, 1, 62, 63, 251, 255}

RECURSIVE SeqsUpTo(_, _)
SeqsUpTo(S, n) ==
  IF n = 0 THEN {<< >>}
  ELSE LET shorter == SeqsUpTo(S, n - 1)
       IN shorter \cup {Append(q, x) : q \in {p \in shorter : Len(p) = n - 1}, x \in S}

Buffers == SeqsUpTo(Bytes, MaxLen)

CodecInit ==
  /\ email = ""
  /\ loading = FALSE
  /\ route = "/"
  /\ sessionStorage = [k \in {} |-> << >>]
  /\ window = CHOOSE w \in CeremonyWindows : TRUE
  /\ inv = [i \in Invocations |-> Idle]
  /\ codec \in {[CodecOff EXCEPT !.phase = "input", !.buf = b] : b \in Buffers}
  /\ caught = CaughtOff
  /\ device = DeviceOff

\* text = bufToBase64url(buf)
Encode ==
  /\ codec.phase = "input"
  /\ codec' = [codec EXCEPT !.phase = "encoded", !.text = bufToBase64url(codec.buf)]
  /\ UNCHANGED << email, loading, route, sessionStorage, window, inv, caught, device >>

\* out = base64urlToBuf(text)
Decode ==
  /\ codec.phase = "encoded"
  /\ codec' = [codec EXCEPT !.phase = "decoded", !.out = base64urlToBuf(codec.text)]
  /\ UNCHANGED << email, loading, route, sessionStorage, window, inv, caught, device >>

CodecNext == Encode \/ Decode

CodecSpec == CodecInit /\ [][CodecNext]_vars

\* ---------------------------------------------- base64urlToBuf, on any text

MaxTextLen == 4

\* 'A', 'Q', '8', the URL-safe and the standard characters for 62 and 63,
\* the pad character, a space and '!'.
TextCodes == {65, 81, 56, MINUS, UNDERSCORE, PLUS, SLASH, EQUALS, SPACE, 33}

Texts == SeqsUpTo(TextCodes, MaxTextLen)

DecoderInit ==
  /\ email = ""
  /\ loading = FALSE
  /\ route = "/"
  /\ sessionStorage = [k \in {} |-> << >>]
  /\ window = CHOOSE w \in CeremonyWindows : TRUE
  /\ inv = [i \in Invocations |-> Idle]
  /\ codec \in {[CodecOff EXCEPT !.phase = "encoded", !.text = t] : t \in Texts}
  /\ caught = CaughtOff
  /\ device = DeviceOff

DecoderNext == Decode

DecoderSpec == DecoderInit /\ [][DecoderNext]_vars

\* ------------------------------------- the handlers' guards, on every window

\* The clicks alone, on every window: each handler from its start to its
\* first suspension or early return.
GuardInit ==
  /\ email = ""
  /\ loading = FALSE
  /\ route = "/"
  /\ sessionStorage = [k \in {} |-> << >>]
  /\ window \in Windows
  /\ inv = [i \in Invocations |-> Idle]
  /\ codec = CodecOff
  /\ caught = CaughtOff
  /\ device = DeviceOff

GuardNext ==
  \/ \E e \in Emails : SetEmail(e)
  \/ \E i \in Invocations : RegisterClick(i)
  \/ \E i \in Invocations : LoginClick(i)

GuardSpec == GuardInit /\ [][GuardNext]_vars

\* ------------------------------- registerPasskey's catch block, on its own

MaxFragments == 2

\* The names of the errors the ceremony can end with.
ErrorNames ==
  {"NotAllowedError", "InvalidStateError", "NotSupportedError", "SecurityError",
   "TypeError", "Error"}

\* What a message text can contain: the name of an error kind, or other
\* text.
Fragments == (ErrorNames \ {"Error"}) \cup {"The operation failed."}

Messages == SeqsUpTo(Fragments, MaxFragments)

\* The bodies of a non-2xx response: with a message, with a detail, with
\* both, with neither.
ErrorBodies ==
  {[message |-> << "server message" >>],
   [detail |-> << "server detail" >>],
   [message |-> << "server message" >>, detail |-> << "server detail" >>],
   [error |-> "Internal Server Error"]}

\* What the try block of registerPasskey can throw: an error with a name
\* and a message, one without message, and the rejection of a request by a
\* non-2xx response (with axios' own message, or with none).
Failures ==
  {[name |-> n, message |-> m] : n \in ErrorNames, m \in Messages}
  \cup {[name |-> n] : n \in ErrorNames}
  \cup {AxiosError(st, d) : st \in {400, 500}, d \in ErrorBodies}
  \cup {Without(AxiosError(st, d), "message") : st \in {400, 500}, d \in ErrorBodies}

ClassifierInit ==
  /\ email = ""
  /\ loading = FALSE
  /\ route = "/"
  /\ sessionStorage = [k \in {} |-> << >>]
  /\ window = CHOOSE w \in CeremonyWindows : TRUE
  /\ inv = [i \in Invocations |-> Idle]
  /\ codec = CodecOff
  /\ caught \in {[CaughtOff EXCEPT !.phase = "thrown", !.err = e] : e \in Failures}
  /\ device = DeviceOff

\* catch (err) { ... toast.error(...) }
Classify ==
  /\ caught.phase = "thrown"
  /\ caught' = [caught EXCEPT !.phase = "classified",
                              !.toast = ErrorToast(RegisterErrorMessage(caught.err))]
  /\ UNCHANGED << email, loading, route, sessionStorage, window, inv, codec, device >>

ClassifierNext == Classify

ClassifierSpec == ClassifierInit /\ [][ClassifierNext]_vars

\* ------------------------------------------- generateDeviceId, on its own

MaxCalls == 2
MaxNow == 1

\* navigator.userAgent of two browsers on the same device.
UserAgents == {"Chrome", "Firefox"}

\* screen.availWidth / availHeight values: the first two of each lie in
\* the same bucket of 100 pixels.
ScreenWidths == {1920, 1987, 2000}
ScreenHeights == {1040, 1079}

\* The object o with its property f set to v.
WithField(o, f, v) == [g \in DOMAIN o \cup {f} |-> IF g = f THEN v ELSE o[g]]

\* The seven collected attributes are read from these properties.
CollectedProperties ==
  {"timeZone", "locale", "language", "platform", "uaPlatform", "hardwareConcurrency",
   "maxTouchPoints", "availWidth", "width", "availHeight", "height", "colorDepth",
   "pixelDepth"}

\* The part of the environment a that generateDeviceId reads.
Collected(a) == [f \in DOMAIN a \cap CollectedProperties |-> a[f]]

\* The page is open on a desktop in one browser; the clock is at 0.
DeviceInit ==
  /\ email = "a@example.com"
  /\ loading = FALSE
  /\ route = "/"
  /\ sessionStorage = [k \in {} |-> << >>]
  /\ window \in {[w EXCEPT !.attributes = WithField(@, "userAgent", ua)] :
                   w \in {v \in CeremonyWindows : v.PublicKeyCredential /\ v.isSecureContext},
                   ua \in UserAgents}
  /\ inv = [i \in Invocations |-> Idle]
  /\ codec = CodecOff
  /\ caught = CaughtOff
  /\ device = DeviceOff

\* A call of generateDeviceId(): the environment it ran in, the time, and
\* the id it returned.
Derive ==
  /\ Len(device.calls) < MaxCalls
  /\ device' = [device EXCEPT !.calls =
                  Append(@, [attributes |-> window.attributes, now |-> device.now,
                             deviceId |-> generateDeviceId(window.attributes)])]
  /\ UNCHANGED << email, loading, route, sessionStorage, window, inv, codec, caught >>

\* Time passes (Date.now() grows).
Tick ==
  /\ device.now < MaxNow
  /\ device' = [device EXCEPT !.now = @ + 1]
  /\ UNCHANGED << email, loading, route, sessionStorage, window, inv, codec, caught >>

\* The available screen area changes (a task bar, another display).
Resize(f, v) ==
  /\ window.attributes[f] # v
  /\ window' = [window EXCEPT !.attributes[f] = v]
  /\ UNCHANGED << email, loading, route, sessionStorage, inv, codec, caught, device >>

\* The same page is opened in another browser of the device.
SwitchBrowser(ua) ==
  /\ window.attributes.userAgent # ua
  /\ window' = [window EXCEPT !.attributes.userAgent = ua]
  /\ UNCHANGED << email, loading, route, sessionStorage, inv, codec, caught, device >>

DeviceNext ==
  \/ Derive
  \/ Tick
  \/ \E v \in ScreenWidths : Resize("availWidth", v)
  \/ \E v \in ScreenHeights : Resize("availHeight", v)
  \/ \E ua \in UserAgents : SwitchBrowser(ua)
  \/ \E i \in Invocations : RegisterClick(i)
  \/ \E i \in Invocations : LoginClick(i)

DeviceSpec == DeviceInit /\ [][DeviceNext]_vars

\* An environment in which every property generateDeviceId reads is
\* available, each with a value other than the one substituted for it.
AttrsFull ==
  [timeZone |-> << 65, 115, 105, 97, 47, 84, 111, 107, 121, 111 >>, locale |-> << 100, 101 >>, language |-> << 102, 114 >>,
   platform |-> << 77, 97, 99, 73, 110, 116, 101, 108 >>, uaPlatform |-> << 109, 97, 99, 79, 83 >>,
   hardwareConcurrency |-> 12, maxTouchPoints |-> 5,
   availWidth |-> 1880, width |-> 1920, availHeight |-> 1040, height |-> 1180,
   colorDepth |-> 30, pixelDepth |-> 32]

\* Every combination of available and unavailable properties.
PartialEnvironments ==
  {[f \in F |-> AttrsFull[f]] : F \in SUBSET CollectedProperties}

DefaultsInit ==
  /\ email = ""
  /\ loading = FALSE
  /\ route = "/"
  /\ sessionStorage = [k \in {} |-> << >>]
  /\ window \in {[w EXCEPT !.attributes = a] :
                   w \in {v \in CeremonyWindows : v.PublicKeyCredential /\ v.isSecureContext},
                   a \in PartialEnvironments}
  /\ inv = [i \in Invocations |-> Idle]
  /\ codec = CodecOff
  /\ caught = CaughtOff
  /\ device = DeviceOff

DefaultsNext == Derive

DefaultsSpec == DefaultsInit /\ [][DefaultsNext]_vars

\* ------------------------------------------------------------- properties

\* Whether invocation r has issued the call op, and how often.
Issued(r, op) == \E k \in 1..Len(r.calls) : r.calls[k].op = op
TimesIssued(r, op) == Cardinality({k \in 1..Len(r.calls) : r.calls[k].op = op})

\* The call of r with operation op (r has issued it).
CallOf(r, op) == r.calls[CHOOSE k \in 1..Len(r.calls) : r.calls[k].op = op]

\* r has received a 2xx start response / a credential from the platform.
GotOptions(r) == Len(r.settled) >= 1 /\ r.settled[1].ok
GotCredential(r) == Len(r.settled) >= 2 /\ r.settled[2].ok

\* The options object lacks challenge, rp.id or user.id.
LacksRequiredField(o) ==
  \/ ~Has(o, "challenge")
  \/ ~Has(o, "rp") \/ ~Has(o.rp, "id")
  \/ ~Has(o, "user") \/ ~Has(o.user, "id")

MissingFieldToasts ==
  {<< ErrorToast(<< m >>) >> : m \in {MsgMissingChallenge, MsgMissingRpId, MsgMissingUserId}}

\* C1: a registerPasskey invocation whose register/start response lacks
\* challenge, rp.id or user.id is rejected with the one "Missing ... in
\* registration options" toast, and has called neither
\* navigator.credentials.create nor register/finish.
C1_MissingFieldRejected ==
  \A i \in Invocations :
    LET r == inv[i]
    IN (r.kind = "register" /\ GotOptions(r) /\ LacksRequiredField(r.settled[1].value))
       => /\ r.pc = "rejected"
          /\ r.toasts \in MissingFieldToasts
          /\ ~Issued(r, CredentialsCreate)
          /\ ~Issued(r, RegisterFinish)
          /\ r.awaiting = {}

\* A registration rejected for a response that has rp but no rp.id.
C1_Witness ==
  \E i \in Invocations :
    /\ inv[i].kind = "register"
    /\ GotOptions(inv[i])
    /\ Has(inv[i].settled[1].value, "rp")
    /\ ~Has(inv[i].settled[1].value.rp, "id")
    /\ inv[i].toasts = << ErrorToast(<< MsgMissingRpId >>) >>

\* The platform's result lacks one of the binary fields the finish request
\* of its kind carries (null lacks them all).
LacksBinaryField(kind, cred) ==
  \/ IsNull(cred)
  \/ ~Has(cred, "rawId")
  \/ ~Has(cred, "response")
  \/ ~Has(cred.response, "clientDataJSON")
  \/ kind = "register" /\ ~Has(cred.response, "attestationObject")
  \/ kind = "login" /\ ~Has(cred.response, "authenticatorData")
  \/ kind = "login" /\ ~Has(cred.response, "signature")

FinishOf(kind) == IF kind = "register" THEN RegisterFinish ELSE LoginFinish

\* C2: an invocation whose platform ceremony returned a result lacking one
\* of its binary fields (rawId, attestationObject, clientDataJSON for a
\* registration; rawId, authenticatorData, clientDataJSON, signature for an
\* authentication) is rejected and has sent no finish request.
C2_FinishOnlyWithAllFields ==
  \A i \in Invocations :
    LET r == inv[i]
    IN (r.kind \in {"register", "login"} /\ GotCredential(r)
        /\ LacksBinaryField(r.kind, r.settled[2].value))
       => r.pc = "rejected" /\ ~Issued(r, FinishOf(r.kind))

\* The finish response of a login invocation was 2xx with verified true.
FinishVerified(r) ==
  /\ Len(r.settled) = 3
  /\ r.settled[3].ok
  /\ Has(r.settled[3].value, "verified")
  /\ r.settled[3].value.verified = TRUE

C3_State ==
  /\ \A i \in Invocations :
       LET r == inv[i]
       IN r.kind = "login" =>
            /\ r.navigated <=> FinishVerified(r)
            /\ r.navigated => r.pc = "succeeded"
            /\ (Terminal(r) /\ ~FinishVerified(r)) => r.pc = "rejected"
  /\ (\E i \in Invocations : inv[i].kind = "login" /\ FinishVerified(inv[i]))
       => route = "/dashboard"
  /\ route = "/dashboard"
       => \E i \in Invocations :
            \/ inv[i].kind = "login" /\ FinishVerified(inv[i])
            \/ inv[i].kind = "password" /\ inv[i].pc = "succeeded"

C3_Step ==
  \A i \in Invocations :
    (inv'[i] # inv[i] /\ inv'[i].kind = "login")
    => /\ sessionStorage' = sessionStorage
       /\ route' # route => FinishVerified(inv'[i])

\* C3: a loginWithPasskey invocation navigates to /dashboard exactly when
\* its login/finish request returned 2xx with verified true; in every other
\* ending it is rejected without navigation; no step of it writes the
\* session storage.
C3_NavigationIffVerified == []C3_State /\ [][C3_Step]_vars

\* A login that was answered verified: false, and one that navigated.
C3_Witness ==
  /\ \E i \in Invocations :
       /\ inv[i].kind = "login" /\ inv[i].pc = "rejected" /\ Len(inv[i].settled) = 3
       /\ inv[i].settled[3].ok /\ Has(inv[i].settled[3].value, "verified")
       /\ ~inv[i].navigated
  /\ \E i \in Invocations : inv[i].kind = "login" /\ inv[i].navigated
  /\ route = "/dashboard"

\* The calls of an invocation of each kind, in order.
CallOrder(kind) ==
  IF kind = "register" THEN << RegisterStart, CredentialsCreate, RegisterFinish >>
  ELSE << LoginStart, CredentialsGet, LoginFinish >>

PcOrder == << "idle", "awaiting-options", "awaiting-platform-ceremony", "awaiting-finish" >>

\* The options passed validation and decoding.
OptionsUsable(kind, o) ==
  IF kind = "register"
  THEN IsNull(ValidateRegistrationOptions(o)) /\ DecodeRegistrationOptions(o).ok
  ELSE DecodeLoginOptions(o).ok

\* C4: the calls of an invocation are a prefix of start, platform ceremony,
\* finish; at most one of them is outstanding, and it is the last one
\* issued; every earlier call has settled; the platform ceremony is called
\* only with a 2xx start response that passed validation and decoding, the
\* finish request sent only with a resolved, non-null platform result; pc
\* names the call awaited.
C4_StrictSequence ==
  \A i \in Invocations :
    LET r == inv[i]
        n == Len(r.calls)
    IN r.kind \in {"register", "login"} =>
         /\ n <= 3
         /\ \A k \in 1..n : r.calls[k].op = CallOrder(r.kind)[k]
         /\ Cardinality(r.awaiting) <= 1
         /\ r.awaiting = IF Terminal(r) THEN {} ELSE {r.calls[n].op}
         /\ Len(r.settled) = n - Cardinality(r.awaiting)
         /\ ~Terminal(r) => r.pc = PcOrder[n + 1]
         /\ n >= 2 => GotOptions(r) /\ OptionsUsable(r.kind, r.settled[1].value)
         /\ n >= 3 => GotCredential(r) /\ ~IsNull(r.settled[2].value)

\* A registration suspended on its finish request, the two earlier calls
\* settled.
C4_Witness ==
  \E i \in Invocations :
    /\ inv[i].kind = "register"
    /\ inv[i].pc = "awaiting-finish"
    /\ inv[i].awaiting = {RegisterFinish}
    /\ Len(inv[i].settled) = 2

\* The page is served over http from a host that is neither localhost nor
\* 127.0.0.1.
HttpElsewhere(w) ==
  /\ w.location.protocol = "http:"
  /\ w.location.hostname \notin {"localhost", "127.0.0.1"}

\* Invocation i starts as registerPasskey in this step.
RegisterStarts(i) == inv[i].pc = "idle" /\ inv'[i].kind = "register"

\* Invocation r ended at once with the one error toast text, no call made.
FailedFast(r, text) ==
  /\ r.pc = "rejected"
  /\ r.toasts = << ErrorToast(text) >>
  /\ r.calls = << >>
  /\ r.awaiting = {}

C5_Step ==
  \A i \in Invocations :
    (RegisterStarts(i) /\ email # "" /\ window.PublicKeyCredential
     /\ HttpElsewhere(window) /\ ~window.isSecureContext)
    => FailedFast(inv'[i], MsgHttpsRequired)

\* C5 (amended): with location.protocol 'http:', a hostname that is neither
\* 'localhost' nor '127.0.0.1' and a falsy window.isSecureContext,
\* registerPasskey (email non-empty, credential API present) ends with the
\* insecure-context error and issues no network request and no platform
\* ceremony.
C5_InsecureContextGuard == [][C5_Step]_vars

C5_OriginalStep ==
  \A i \in Invocations :
    (RegisterStarts(i) /\ email # "" /\ window.PublicKeyCredential
     /\ HttpElsewhere(window))
    => FailedFast(inv'[i], MsgHttpsRequired)

\* C5 as stated: the same without the condition on window.isSecureContext.
C5_Original == [][C5_OriginalStep]_vars

\* A registration refused on an insecure http page.
C5_Witness ==
  /\ HttpElsewhere(window) /\ ~window.isSecureContext /\ window.PublicKeyCredential
  /\ \E i \in Invocations :
       inv[i].kind = "register" /\ inv[i].email # "" /\ FailedFast(inv[i], MsgHttpsRequired)

C6_Step ==
  \A i \in Invocations :
    RegisterStarts(i) =>
      /\ email = "" => FailedFast(inv'[i], MsgEnterEmail)
      /\ (email # "" /\ ~window.PublicKeyCredential) => FailedFast(inv'[i], MsgUnsupported)

\* C6: a registerPasskey started with an empty email, or in a window
\* without PublicKeyCredential, ends at once rejected with the respective
\* error toast and has made no network request, no platform ceremony and no
\* finish request.
C6_FailFast == [][C6_Step]_vars

\* One registration refused for its empty email and one for the absent API.
C6_Witness ==
  /\ \E i \in Invocations : inv[i].kind = "register" /\ FailedFast(inv[i], MsgEnterEmail)
  /\ \E i \in Invocations : inv[i].kind = "register" /\ FailedFast(inv[i], MsgUnsupported)

NetworkOps == {RegisterStart, RegisterFinish, LoginStart, LoginFinish}

\* The credential object of a finish body.
CredentialResultOf(body) ==
  IF Has(body, "attestationResponse") THEN body.attestationResponse
  ELSE body.assertionResponse

C7_State ==
  \A i \in Invocations :
    LET r == inv[i]
    IN r.kind \in {"register", "login"} =>
         /\ r.calls # << >> => r.visitorId # << >>
         /\ \A k \in 1..Len(r.calls) :
              LET call == r.calls[k]
              IN call.op \in NetworkOps =>
                   /\ call.headers["x-fp-visitor-id"] = r.visitorId
                   /\ call.op \in {RegisterFinish, LoginFinish} =>
                        /\ call.body.fpVisitorId = r.visitorId
                        /\ DOMAIN CredentialResultOf(call.body)
                             \subseteq {"id", "rawId", "type", "response"}
                        /\ DOMAIN CredentialResultOf(call.body).response
                             \subseteq {"attestationObject", "clientDataJSON", "transports",
                                        "authenticatorData", "signature", "userHandle"}

C7_Step ==
  \A i \in Invocations :
    inv'[i].kind \in {"register", "login"} =>
      /\ (inv[i].pc = "idle" /\ inv'[i].calls # << >>)
           => inv'[i].visitorId = generateDeviceId(window.attributes)
      /\ inv[i].pc # "idle" => inv'[i].visitorId = inv[i].visitorId

\* C7: in every registerPasskey and loginWithPasskey invocation the
\* x-fp-visitor-id header of the start request, that of the finish request
\* and the fpVisitorId field of the finish body all equal the non-empty
\* device id derived from the window's attributes when the invocation
\* began; the attestationResponse / assertionResponse object has no
\* fingerprint field.
C7_OneFingerprint == []C7_State /\ [][C7_Step]_vars

\* A registration that sent its finish request after the device's
\* attributes had changed, and a login that sent its finish request.
C7_Witness ==
  /\ \E i \in Invocations :
       /\ inv[i].kind = "register" /\ Issued(inv[i], RegisterFinish)
       /\ inv[i].visitorId # generateDeviceId(window.attributes)
  /\ \E i \in Invocations : inv[i].kind = "login" /\ Issued(inv[i], LoginFinish)

C8_State ==
  \A i \in Invocations :
    LET r == inv[i]
    IN /\ \A op \in NetworkOps \cup {CredentialsCreate, CredentialsGet} : TimesIssued(r, op) <= 1
       /\ r.pc = "rejected" => r.awaiting = {}

C8_Step == \A i \in Invocations : Terminal(inv[i]) => inv'[i] = inv[i]

\* C8: an invocation issues each of its start request, platform ceremony
\* and finish request at most once, and an invocation that has ended
\* (rejected or succeeded) has no call outstanding and never changes again.
C8_NoRetries == []C8_State /\ [][C8_Step]_vars

\* A registration rejected by its failed finish request, each call made
\* once.
C8_Witness ==
  \E i \in Invocations :
    /\ inv[i].kind = "register" /\ inv[i].pc = "rejected"
    /\ Len(inv[i].calls) = 3 /\ Len(inv[i].settled) = 3
    /\ ~inv[i].settled[3].ok

\* C9: base64urlToBuf(bufToBase64url(b)) = b for every byte sequence b,
\* the empty one included.
C9_RoundTrip ==
  codec.phase = "decoded" => codec.out.ok /\ codec.out.bytes = codec.buf

\* A decoded buffer whose text has both '-' and '_', and no padding left.
C9_Witness ==
  /\ codec.phase = "decoded"
  /\ codec.buf = << 251, 255 >>
  /\ codec.text = << MINUS, UNDERSCORE, B64Char(60) >>
  /\ codec.out.bytes = << 251, 255 >>

\* The bytes of field f of object o; none when the field is absent.
BytesOf(o, f) == IF Has(o, f) THEN o[f] ELSE << >>

\* C10: the attestationResponse of a register/finish body has the
\* credential's id; its rawId, attestationObject and clientDataJSON texts
\* decode (base64urlToBuf) to exactly the bytes the platform returned; its
\* transports are the reported list, or the empty list when none is
\* reported.
C10_HappyPath ==
  \A i \in Invocations :
    LET r == inv[i]
    IN (r.kind = "register" /\ Issued(r, RegisterFinish)) =>
         LET cred == r.settled[2].value
             a == CallOf(r, RegisterFinish).body.attestationResponse
         IN /\ a.id = cred.id
            /\ base64urlToBuf(a.rawId) = [ok |-> TRUE, bytes |-> BytesOf(cred, "rawId")]
            /\ base64urlToBuf(a.response.attestationObject)
                 = [ok |-> TRUE, bytes |-> BytesOf(cred.response, "attestationObject")]
            /\ base64urlToBuf(a.response.clientDataJSON)
                 = [ok |-> TRUE, bytes |-> BytesOf(cred.response, "clientDataJSON")]
            /\ a.response.transports =
                 IF Has(cred.response, "transports") THEN cred.response.transports ELSE << >>

\* Finish requests for the credential cred1 (no transports reported) and
\* for cred2 (transports reported, url-safe characters in its texts).
C10_Witness ==
  /\ \E i \in Invocations :
       /\ inv[i].kind = "register" /\ Issued(inv[i], RegisterFinish)
       /\ inv[i].settled[2].value = CredentialOne
       /\ CallOf(inv[i], RegisterFinish).body.attestationResponse.id = "cred1"
  /\ \E i \in Invocations :
       /\ inv[i].kind = "register" /\ Issued(inv[i], RegisterFinish)
       /\ inv[i].settled[2].value = CredentialTwo

\* C11: the catch block of registerPasskey shows the cancelled-or-denied
\* text for every error whose name is NotAllowedError, whatever fragments
\* its message has (the names of other error kinds included) and whether or
\* not it has a message.
C11_NotAllowedIsCancelled ==
  (caught.phase = "classified" /\ NameIs(caught.err, "NotAllowedError"))
  => caught.toast = ErrorToast(MsgCancelled)

\* A NotAllowedError whose message names InvalidStateError and TypeError.
C11_Witness ==
  /\ caught.phase = "classified"
  /\ NameIs(caught.err, "NotAllowedError")
  /\ Includes(caught.err, "InvalidStateError")
  /\ Includes(caught.err, "TypeError")
  /\ caught.toast = ErrorToast(MsgCancelled)

\* C12: the catch block of registerPasskey shows the already-exists text
\* for every error whose name is InvalidStateError, for every message text.
C12_InvalidStateIsAlreadyExists ==
  (caught.phase = "classified" /\ NameIs(caught.err, "InvalidStateError"))
  => caught.toast = ErrorToast(MsgAlreadyExists)

\* The failure is the rejection of a request by a non-2xx response.
IsHttpFailure(err) == Has(err, "response") /\ NameIs(err, "AxiosError")

\* C13: for the rejection of a request by a non-2xx response the catch
\* block shows the response body's message when the body has one, else its
\* detail when it has one; only a body with neither makes it show the
\* error's own message, and the generic text when there is none.
C13_ServerMessageFirst ==
  (caught.phase = "classified" /\ IsHttpFailure(caught.err))
  => LET data == caught.err.response.data
     IN caught.toast =
          ErrorToast(IF Truthy(data, "message") THEN data.message
                     ELSE IF Truthy(data, "detail") THEN data.detail
                     ELSE IF Has(caught.err, "message") THEN caught.err.message
                     ELSE MsgRegistrationFailed)

\* A 400 whose body carries a message, shown in place of axios' own text.
C13_Witness ==
  /\ caught.phase = "classified"
  /\ IsHttpFailure(caught.err)
  /\ Has(caught.err, "message")
  /\ Truthy(caught.err.response.data, "message")
  /\ caught.toast = ErrorToast(<< "server message" >>)

\* C14: two calls of generateDeviceId in environments with the same
\* collected attributes return the same id, whatever the time of each call.
C14_Deterministic ==
  \A j, k \in 1..Len(device.calls) :
    Collected(device.calls[j].attributes) = Collected(device.calls[k].attributes)
    => device.calls[j].deviceId = device.calls[k].deviceId

\* Two calls in the same environment at different times.
C14_Witness ==
  /\ Len(device.calls) = 2
  /\ device.calls[1].attributes = device.calls[2].attributes
  /\ device.calls[1].now # device.calls[2].now
  /\ device.calls[1].deviceId = device.calls[2].deviceId

\* hash * 31 + charCode, wrapped to a signed 32-bit integer.
TimesThirtyOnePlus(h, char) == ToInt32(31 * (h \div Limb), 31 * (h % Limb) + char)

\* The fold of hash * 31 + charCode over t from h, and whether the code's
\* step gave the same value at every step: [hash, same].
RECURSIVE FoldThirtyOne(_, _)
FoldThirtyOne(h, t) ==
  IF Len(t) = 0 THEN [hash |-> h, same |-> TRUE]
  ELSE IF Len(t) = 1
  THEN [hash |-> TimesThirtyOnePlus(h, t[1]),
        same |-> HashStep(h, t[1]) = TimesThirtyOnePlus(h, t[1])]
  ELSE LET m == Len(t) \div 2
           rest[r \in [hash : Int, same : BOOLEAN]] ==
             LET q == FoldThirtyOne(r.hash, SubSeq(t, m + 1, Len(t)))
             IN [hash |-> q.hash, same |-> r.same /\ q.same]
       IN rest[FoldThirtyOne(h, SubSeq(t, 1, m))]

\* |h| as its two 16-bit limbs (|h| can be 2^31).
AbsLimbs(h) ==
  IF h >= 0 THEN [hi |-> h \div Limb, lo |-> h % Limb]
  ELSE LET n == -(h + 1)
       IN [hi |-> (n \div Limb) + (IF n % Limb = Limb - 1 THEN 1 ELSE 0),
           lo |-> ((n % Limb) + 1) % Limb]

\* The value of a text of lowercase hexadecimal digits; -1 when a character
\* is no such digit.
RECURSIVE HexValue(_)
HexValue(t) ==
  IF Len(t) = 0 THEN 0
  ELSE LET c == t[Len(t)]
           d == IF c >= 48 /\ c <= 57 THEN c - 48
                ELSE IF c >= 97 /\ c <= 102 THEN c - 87
                ELSE -1
           up == HexValue(SubSeq(t, 1, Len(t) - 1))
       IN IF d < 0 \/ up < 0 THEN -1 ELSE up * 16 + d

\* t is the lowercase hexadecimal rendering, without leading zeros, of the
\* number with the limbs n.
IsHexOf(t, n) ==
  LET m == Len(t)
      low == SubSeq(t, IF m > 4 THEN m - 3 ELSE 1, m)
      high == SubSeq(t, 1, IF m > 4 THEN m - 4 ELSE 0)
  IN /\ m >= 1 /\ m <= 8
     /\ m > 1 => t[1] # 48
     /\ HexValue(low) = n.lo
     /\ HexValue(high) = n.hi

\* The parts of t between the separators sep.
SplitAt(t, sep) ==
  LET at == {k \in 1..Len(t) : t[k] = sep}
      cut(n) == IF n = 0 THEN 0
                ELSE IF n > Cardinality(at) THEN Len(t) + 1
                ELSE CHOOSE k \in at : Cardinality({j \in at : j < k}) = n - 1
  IN [n \in 1..(Cardinality(at) + 1) |-> SubSeq(t, cut(n - 1) + 1, cut(n) - 1)]

StartsWith(t, prefix) == Len(t) >= Len(prefix) /\ SubSeq(t, 1, Len(prefix)) = prefix

\* The component string has its seven parts in the order screen, timezone,
\* locale, language, CPU count, platform (in lowercase), touch points.
InFixedOrder(t) ==
  LET parts == SplitAt(t, StrBar[1])
      labels == << StrScreen, StrTz, StrLoc, StrLang, StrCpu, StrPlatform, StrTouch >>
  IN /\ Len(parts) = 7
     /\ \A n \in 1..7 : StartsWith(parts[n], labels[n])
     /\ \A k \in 1..Len(parts[6]) : ~(parts[6][k] >= 65 /\ parts[6][k] <= 90)

\* C15: the id returned by generateDeviceId is 'device-' followed by the
\* lowercase hexadecimal rendering of |h|, h being the fold of
\* hash * 31 + charCode (wrapped to a signed 32-bit integer at every step)
\* over the '|'-joined components in the order screen, timezone, locale,
\* language, CPU count, lowercase platform, touch points; the code's step
\* ((hash << 5) - hash) + char, hash & hash gives the same value at every
\* step.
C15_HashOfComponents ==
  \A k \in 1..Len(device.calls) :
    LET call == device.calls[k]
        t == Components(call.attributes)
        f == FoldThirtyOne(0, t)
        id == call.deviceId
    IN /\ InFixedOrder(t)
       /\ f.same
       /\ StartsWith(id, StrDevice)
       /\ IsHexOf(SubSeq(id, Len(StrDevice) + 1, Len(id)), AbsLimbs(f.hash))

\* A call whose hash is negative, so that its absolute value is rendered.
C15_Witness ==
  /\ Len(device.calls) >= 1
  /\ FoldThirtyOne(0, Components(device.calls[1].attributes)).hash < 0
  /\ HashOf(Components(device.calls[1].attributes)) < 0

\* The environments a and b differ at most in the available screen width
\* and height, and each of the two lies in the same bucket of 100 pixels in
\* both.
SameScreenBuckets(a, b) ==
  /\ Without(Without(Collected(a), "availWidth"), "availHeight")
       = Without(Without(Collected(b), "availWidth"), "availHeight")
  /\ a.availWidth \div 100 = b.availWidth \div 100
  /\ a.availHeight \div 100 = b.availHeight \div 100

\* The screen component of the component string of a.
ScreenComponent(a) == SplitAt(Components(a), StrBar[1])[1]

\* C16: two calls of generateDeviceId in environments that differ only in a
\* screen width or height within the same bucket of 100 pixels (1920 and
\* 1987, both 1900) build the same screen component and return the same
\* id.
C16_ScreenBuckets ==
  \A j, k \in 1..Len(device.calls) :
    LET a == device.calls[j].attributes
        b == device.calls[k].attributes
    IN SameScreenBuckets(a, b)
       => /\ ScreenComponent(a) = ScreenComponent(b)
          /\ device.calls[j].deviceId = device.calls[k].deviceId

\* A call with width 1920 and one with width 1987: the component of both
\* starts with "screen:1900x".
C16_Witness ==
  /\ Len(device.calls) = 2
  /\ device.calls[1].attributes.availWidth = 1920
  /\ device.calls[2].attributes.availWidth = 1987
  /\ SameScreenBuckets(device.calls[1].attributes, device.calls[2].attributes)
  /\ StartsWith(ScreenComponent(device.calls[2].attributes),
                StrScreen \o << 49, 57, 48, 48 >> \o StrX)
  /\ device.calls[1].deviceId = device.calls[2].deviceId

\* The value of property f of a, and alt when it is unavailable.
ValueOr(a, f, alt) == IF Has(a, f) THEN a[f] ELSE alt

\* The component string of a vector of ten values.
RenderVector(v) ==
  StrScreen \o DecimalString((v.width \div 100) * 100) \o StrX
    \o DecimalString((v.height \div 100) * 100) \o StrX
    \o DecimalString(v.colorDepth) \o StrX \o DecimalString(v.pixelDepth)
  \o StrBar \o StrTz \o v.timezone
  \o StrBar \o StrLoc \o v.locale
  \o StrBar \o StrLang \o v.language
  \o StrBar \o StrCpu \o DecimalString(v.cpu)
  \o StrBar \o StrPlatform \o toLowerCase(v.platform)
  \o StrBar \o StrTouch \o DecimalString(v.touch)

\* The values of the attributes of a with the substitutes of the text
\* attributes and of the counts and sizes; color and pixel are the values of
\* the two depths.
VectorOf(a, color, pixel) ==
  [timezone |-> ValueOr(a, "timeZone", StrUTC),
   locale |-> ValueOr(a, "locale", ValueOr(a, "language", StrEn)),
   language |-> ValueOr(a, "language", StrEn),
   platform |-> ValueOr(a, "platform", ValueOr(a, "uaPlatform", StrUnknown)),
   cpu |-> ValueOr(a, "hardwareConcurrency", 0),
   touch |-> ValueOr(a, "maxTouchPoints", 0),
   width |-> ValueOr(a, "availWidth", ValueOr(a, "width", 0)),
   height |-> ValueOr(a, "availHeight", ValueOr(a, "height", 0)),
   colorDepth |-> color,
   pixelDepth |-> pixel]

\* The call returned an id.
ReturnedId(call) == StartsWith(call.deviceId, StrDevice) /\ Len(call.deviceId) > Len(StrDevice)

\* C17 (amended): for every combination of available and unavailable
\* attributes generateDeviceId returns an id, built from the component
\* string in which an unavailable attribute is replaced by: 'UTC' for the
\* timezone, the language and then 'en' for the locale, 'en' for the
\* language, userAgentData's platform and then 'unknown' for the platform,
\* 0 for the CPU count, the touch points and the screen width and height
\* (after the fall back from availWidth / availHeight to width / height),
\* 24 for the colour depth, and the colour depth and then 24 for the pixel
\* depth.
C17_Defaults ==
  \A k \in 1..Len(device.calls) :
    LET call == device.calls[k]
        a == call.attributes
        v == VectorOf(a, ValueOr(a, "colorDepth", 24),
                      ValueOr(a, "pixelDepth", ValueOr(a, "colorDepth", 24)))
    IN /\ ReturnedId(call)
       /\ call.deviceId = StrDevice \o AbsHex(HashOf(RenderVector(v)))

\* C17 as stated: 0 for every unavailable numeric attribute, the two depths
\* included.
C17_Original ==
  \A k \in 1..Len(device.calls) :
    LET call == device.calls[k]
        a == call.attributes
        v == VectorOf(a, ValueOr(a, "colorDepth", 0), ValueOr(a, "pixelDepth", 0))
    IN /\ ReturnedId(call)
       /\ call.deviceId = StrDevice \o AbsHex(HashOf(RenderVector(v)))

\* A call in the environment in which nothing is available, and its id.
C17_Witness ==
  /\ Len(device.calls) >= 1
  /\ DOMAIN device.calls[1].attributes = {}
  /\ Components(device.calls[1].attributes)
       = StrScreen \o << 48, 120, 48, 120, 50, 52, 120, 50, 52 >> \o StrBar
         \o StrTz \o StrUTC \o StrBar \o StrLoc \o StrEn \o StrBar \o StrLang \o StrEn
         \o StrBar \o StrCpu \o << 48 >> \o StrBar \o StrPlatform \o StrUnknown
         \o StrBar \o StrTouch \o << 48 >>
  /\ ReturnedId(device.calls[1])

C18_State ==
  \A j, k \in 1..Len(device.calls) :
    Collected(device.calls[j].attributes) = Collected(device.calls[k].attributes)
    => device.calls[j].deviceId = device.calls[k].deviceId

C18_Step ==
  \A i \in Invocations :
    (inv[i].pc = "idle" /\ inv'[i].calls # << >>)
    => LET sent == inv'[i].calls[1].headers["x-fp-visitor-id"]
       IN /\ sent = generateDeviceId(Collected(window.attributes))
          /\ \A k \in 1..Len(device.calls) :
               Collected(device.calls[k].attributes) = Collected(window.attributes)
               => sent = device.calls[k].deviceId

\* C18: environments that agree on the collected attributes and differ in
\* the user agent get the same id from generateDeviceId, and the start
\* request of registerPasskey and of loginWithPasskey carries that id: the
\* one computed from the collected attributes alone, equal to what
\* generateDeviceId returned in any browser of the same device.
C18_BrowserIndependent == []C18_State /\ [][C18_Step]_vars

\* generateDeviceId called in two browsers of the device, and a ceremony
\* that sent the id both returned.
C18_Witness ==
  /\ Len(device.calls) = 2
  /\ device.calls[1].attributes.userAgent # device.calls[2].attributes.userAgent
  /\ Collected(device.calls[1].attributes) = Collected(device.calls[2].attributes)
  /\ device.calls[1].deviceId = device.calls[2].deviceId
  /\ \E i \in Invocations :
       /\ inv[i].calls # << >>
       /\ inv[i].calls[1].headers["x-fp-visitor-id"] = device.calls[1].deviceId

\* The characters of base64url: A-Z, a-z, 0-9, '-' and '_'.
UrlSafeCodes == (B64Codes \ {PLUS, SLASH}) \cup {MINUS, UNDERSCORE}

\* The text has a character outside the base64url alphabet, or a length
\* that cannot be padded.
Malformed(t) ==
  \/ \E k \in 1..Len(t) : t[k] \notin UrlSafeCodes
  \/ Len(t) % 4 = 1

\* C19: base64urlToBuf decodes every text of base64url characters whose
\* length is not 1 modulo 4, padded or not, to the (3 * length) \div 4 bytes
\* it encodes, and throws for every malformed text: one with a character
\* outside the alphabet or with a length of 1 modulo 4.
C19_MalformedRejected ==
  codec.phase = "decoded"
  => IF Malformed(codec.text) THEN ~codec.out.ok
     ELSE codec.out.ok /\ Len(codec.out.bytes) = (3 * Len(codec.text)) \div 4

StrDeviceIdHash == << 57, 102, 50, 99 >>    \* the hash of AuthLoginResults

\* The invocation took a step.
Stepped(i) == inv'[i] # inv[i]

\* The step resumed a password login with a 2xx response of /auth/login.
LoggedInStep(i) ==
  /\ inv[i].kind = "password"
  /\ inv[i].pc = "awaiting-login"
  /\ inv'[i].pc = "succeeded"
  /\ inv'[i].settled[Len(inv'[i].settled)].ok

\* What the step of LoggedInStep(i) stores under the key.
StoredBy(i) ==
  LET data == inv'[i].settled[Len(inv'[i].settled)].value
  IN IF "deviceIdHash" \in DOMAIN data THEN data.deviceIdHash ELSE StrUndefined

C20_State ==
  /\ DOMAIN sessionStorage \subseteq {"deviceIdHash"}
  /\ \A k \in DOMAIN sessionStorage :
       /\ \A a \in AttributeRecords : sessionStorage[k] # generateDeviceId(a)
       /\ \A i \in Invocations : sessionStorage[k] # inv[i].visitorId
  /\ sessionStorage # [k \in {} |-> << >>]
       => \E i \in Invocations : inv[i].kind = "password" /\ inv[i].pc = "succeeded"

C20_Step ==
  /\ sessionStorage' # sessionStorage => \E i \in Invocations : LoggedInStep(i)
  /\ \A i \in Invocations :
       /\ LoggedInStep(i)
            => /\ DOMAIN sessionStorage' = DOMAIN sessionStorage \cup {"deviceIdHash"}
               /\ sessionStorage'["deviceIdHash"] = StoredBy(i)
       /\ Stepped(i) /\ inv'[i].kind \in {"register", "login"}
            => sessionStorage' = sessionStorage
       /\ Stepped(i) /\ inv'[i].kind = "password" /\ inv'[i].pc # "succeeded"
            => sessionStorage' = sessionStorage

\* C20: session storage changes only in the step of a password login
\* (onSubmit) that resumes with a 2xx response of /auth/login, which stores
\* the response's deviceIdHash under the key deviceIdHash; every step of a
\* registerPasskey or loginWithPasskey invocation, and every step of a
\* password login that does not succeed, leaves it unchanged; no stored
\* value is a device fingerprint.
C20_StorageOnlyByPasswordLogin == []C20_State /\ [][C20_Step]_vars

\* A passkey registration ended, then a password login stored the hash the
\* server returned.
C20_Witness ==
  /\ "deviceIdHash" \in DOMAIN sessionStorage
  /\ sessionStorage["deviceIdHash"] = StrDeviceIdHash
  /\ \E i, j \in Invocations :
       /\ inv[i].kind = "register" /\ Terminal(inv[i]) /\ Len(inv[i].calls) = 3
       /\ inv[j].kind = "password" /\ inv[j].pc = "succeeded"

\* The login/start request of the invocation settled with a 2xx response
\* that has no challenge.
StartLacksChallenge(r) ==
  /\ r.kind = "login"
  /\ Len(r.settled) >= 1
  /\ r.settled[1].ok
  /\ "challenge" \notin DOMAIN r.settled[1].value

\* C21: a loginWithPasskey invocation whose login/start response has no
\* challenge is rejected with the login-failed toast in the step that
\* receives the response: navigator.credentials.get is never invoked, no
\* login/finish request is sent, and it does not navigate.
C21_MissingChallengeRejected ==
  \A i \in Invocations :
    StartLacksChallenge(inv[i])
      => /\ inv[i].pc = "rejected"
         /\ inv[i].calls = << Post(LoginStart, [email |-> inv[i].email], inv[i].visitorId) >>
         /\ ~Issued(inv[i], CredentialsGet)
         /\ ~Issued(inv[i], LoginFinish)
         /\ inv[i].awaiting = {}
         /\ inv[i].toasts = << ErrorToast(MsgLoginFailed) >>
         /\ ~inv[i].navigated

\* A login that received options without a challenge, after another login
\* went through its platform ceremony.
C21_Witness ==
  \E i, j \in Invocations :
    /\ StartLacksChallenge(inv[i])
    /\ inv[j].kind = "login" /\ Issued(inv[j], CredentialsGet)

LoginStarts(i) == inv[i].pc = "idle" /\ inv'[i].kind = "login"

C22_Step ==
  \A i \in Invocations :
    (LoginStarts(i) /\ email # "" /\ (~window.PublicKeyCredential \/ ~IsSecureContext(window)))
    => /\ inv'[i].pc = "rejected"
       /\ inv'[i].calls = << >>
       /\ inv'[i].awaiting = {}

\* C22: a loginWithPasskey started (email non-empty) in a window without
\* PublicKeyCredential, or in a context that registerPasskey's test takes
\* for insecure, ends at once rejected and issues no network request: no
\* login/start call.
C22_LoginFailFast == [][C22_Step]_vars

\* The user abandoned the platform ceremony of the login invocation:
\* navigator.credentials.get rejected with NotAllowedError.
GetAbandoned(r) ==
  /\ r.kind = "login"
  /\ Len(r.settled) = 2
  /\ ~r.settled[2].ok
  /\ NameIs(r.settled[2].error, "NotAllowedError")

\* C23: a loginWithPasskey invocation whose navigator.credentials.get
\* rejected with NotAllowedError ends rejected with a toast of the
\* user-cancelled category: not the toast 'Device login failed' that the
\* generic failure and the server's negative verdict get.
C23_LoginCancelIsCancelled ==
  \A i \in Invocations :
    GetAbandoned(inv[i])
      => /\ inv[i].pc = "rejected"
         /\ inv[i].toasts # << ErrorToast(MsgLoginFailed) >>

\* The invocation has started and not ended.
InFlight(r) == r.pc # "idle" /\ ~Terminal(r)

\* The loginWithPasskey and onSubmit invocations in flight.
LoadingHolders == {i \in Invocations : inv[i].kind \in {"login", "password"} /\ InFlight(inv[i])}

C24_State ==
  /\ loading <=> LoadingHolders # {}
  /\ Cardinality(LoadingHolders) <= 1

C24_Step ==
  \A i \in Invocations :
    (Stepped(i) /\ inv'[i].kind = "register") => loading' = loading

\* C24: with the handlers started through their buttons, loading is true
\* exactly when a loginWithPasskey or onSubmit invocation is in flight, at
\* most one of them is in flight at a time, and no step of a registerPasskey
\* invocation (its start, its resumptions, its end) changes loading.
C24_LoadingIsTheLoginInFlight == []C24_State /\ [][C24_Step]_vars

\* A registration in flight while a login started after it is in flight,
\* loading true.
C24_Witness ==
  /\ loading
  /\ \E i, j \in Invocations :
       /\ inv[i].kind = "register" /\ InFlight(inv[i])
       /\ inv[j].kind \in {"login", "password"} /\ InFlight(inv[j])

\* C25: when every awaited network call and platform ceremony settles,
\* every loginWithPasskey and onSubmit invocation in flight eventually ends
\* succeeded or rejected, and loading, once true, is eventually false again.
C25_Terminates ==
  /\ \A i \in Invocations :
       (inv[i].kind \in {"login", "password"} /\ InFlight(inv[i])) ~> Terminal(inv[i])
  /\ loading ~> ~loading

\* A login ended by the failure its platform ceremony threw and a password
\* login ended by its rejected request, loading false; the first after a
\* login that returned early for its empty email.
C25_Witness ==
  /\ ~loading
  /\ \E i, j \in Invocations :
       /\ inv[i].kind = "login" /\ inv[i].pc = "rejected"
       /\ Len(inv[i].settled) = 2 /\ ~inv[i].settled[2].ok
       /\ inv[j].kind = "password" /\ inv[j].pc = "rejected"
       /\ Len(inv[j].settled) = 2

\* C26: in every registerPasskey and loginWithPasskey invocation the email
\* of the finish request's body is the email of the start request's body,
\* the one the input held when the invocation began, whatever the input
\* holds since and whatever other invocation has started.
C26_OneEmail ==
  \A i \in Invocations :
    LET r == inv[i]
    IN r.kind \in {"register", "login"} =>
         \A k \in 1..Len(r.calls) :
           r.calls[k].op \in NetworkOps
             => /\ r.calls[1].op \in {RegisterStart, LoginStart}
                /\ r.calls[k].body.email = r.calls[1].body.email
                /\ r.calls[k].body.email = r.email

\* An invocation suspended on its finish request, sent after the email
\* input was cleared, while the next invocation has started with the
\* cleared input.
C26_Witness ==
  \E i, j \in Invocations :
    /\ inv[i].kind \in {"register", "login"}
    /\ inv[i].pc = "awaiting-finish"
    /\ inv[i].calls[3].body.email # email
    /\ inv[j].kind \in {"register", "login"}
    /\ inv[j].email # inv[i].email

====
